---------------------------- MODULE Spec2Model ----------------------------
(***************************************************************************)
(* Model of the stateless signed admin-session codec and the password      *)
(* verifier of src/src/lib/session.ts.                                     *)
(*                                                                         *)
(* Strings are sequences of UTF-16 code units, buffers are sequences of    *)
(* bytes.  Optional strings (string | undefined) are records               *)
(* [def |-> BOOLEAN, s |-> text].                                          *)
(***************************************************************************)
EXTENDS Integers, Sequences, FiniteSets, TLC

(***************************************************************************)
(* Bounds of the model.                                                    *)
(***************************************************************************)
\* number of distinct non-empty secrets the environment may hold
NumSecrets == 2

\* the number of callers racing through ensureConfig
NumRacers == 2

\* test-r2.ts: no diagnostic key is longer
MAX_KEY_LENGTH == 64

(***************************************************************************)
(* Program constants.                                                      *)
(***************************************************************************)
\* size of an HMAC-SHA256 digest in bytes
DIGEST_BYTES == 32
SESSION_TTL_SECONDS == 60 * 60 * 24 * 30
\* 'admin_session'
SESSION_COOKIE == <<97,100,109,105,110,95,115,101,115,115,105,111,110>>

(***************************************************************************)
(* Character codes and texts used by the code.                             *)
(***************************************************************************)
CH_DOT == 46
CH_EQ == 61
CH_PLUS == 43
CH_SLASH == 47
CH_MINUS == 45
CH_UNDERSCORE == 95
CH_QUOTE == 34
CH_COLON == 58
CH_COMMA == 44
CH_LBRACE == 123
CH_RBRACE == 125
CH_BACKSLASH == 92
REPLACEMENT_CHAR == 65533

T_true == <<116,114,117,101>>
T_false == <<102,97,108,115,101>>
T_null == <<110,117,108,108>>
T_isAdmin == <<105,115,65,100,109,105,110>>

(***************************************************************************)
(* Optional strings.                                                       *)
(***************************************************************************)
Undefined == [def |-> FALSE, s |-> <<>>]
Some(t) == [def |-> TRUE, s |-> t]

\* JavaScript truthiness of a string | undefined value
Truthy(v) == v.def /\ Len(v.s) > 0

\* a ?? b
Nullish(a, b) == IF a.def THEN a ELSE b

(***************************************************************************)
(* Sequence helpers.                                                       *)
(***************************************************************************)
Repeat(c, n) == [i \in 1..n |-> c]

\* the concatenation of parts[lo], ..., parts[hi]
RECURSIVE Flatten(_, _, _)
Flatten(parts, lo, hi) ==
  IF lo > hi THEN <<>>
  ELSE IF lo = hi THEN parts[lo]
  ELSE LET mid == (lo + hi) \div 2
       IN Flatten(parts, lo, mid) \o Flatten(parts, mid + 1, hi)

\* String.prototype.slice(from0, to0) with 0-based, end-exclusive indexes
Slice(t, from0, to0) == SubSeq(t, from0 + 1, to0)

\* String.prototype.lastIndexOf(c): 0-based index or -1
LastIndexOf(t, c) ==
  LET hits == {i \in 1..Len(t) : t[i] = c}
  IN IF hits = {} THEN -1
     ELSE (CHOOSE i \in hits : \A j \in hits : j <= i) - 1

\* String.prototype.replace(/c/g, d)
ReplaceAll(t, c, d) == [i \in 1..Len(t) |-> IF t[i] = c THEN d ELSE t[i]]

\* String.prototype.replace(/=+$/u, '')
RECURSIVE StripTrailingEq(_)
StripTrailingEq(t) ==
  IF Len(t) > 0 /\ t[Len(t)] = CH_EQ
  THEN StripTrailingEq(SubSeq(t, 1, Len(t) - 1))
  ELSE t

\* flip bit k of the number c
FlipBit(c, k) ==
  LET w == 2 ^ k
  IN IF (c \div w) % 2 = 1 THEN c - w ELSE c + w

(***************************************************************************)
(* UTF-8: Buffer.from(text, 'utf8') and buffer.toString('utf8').           *)
(***************************************************************************)
IsHighSurrogate(c) == c >= 55296 /\ c <= 56319
IsLowSurrogate(c) == c >= 56320 /\ c <= 57343

\* the bytes of the code unit at i: a surrogate pair gives four bytes at its
\* high half and none at its low half, a lone surrogate gives U+FFFD
Utf8EncodeAt(t, i) ==
  LET c == t[i]
  IN IF c < 128 THEN <<c>>
     ELSE IF c < 2048 THEN <<192 + (c \div 64), 128 + (c % 64)>>
     ELSE IF IsHighSurrogate(c) /\ i < Len(t) /\ IsLowSurrogate(t[i + 1])
     THEN LET cp == 65536 + (c - 55296) * 1024 + (t[i + 1] - 56320)
          IN <<240 + (cp \div 262144), 128 + ((cp \div 4096) % 64),
               128 + ((cp \div 64) % 64), 128 + (cp % 64)>>
     ELSE IF IsLowSurrogate(c) /\ i > 1 /\ IsHighSurrogate(t[i - 1])
     THEN <<>>
     ELSE IF IsHighSurrogate(c) \/ IsLowSurrogate(c)
     THEN <<239, 191, 189>>
     ELSE <<224 + (c \div 4096), 128 + ((c \div 64) % 64), 128 + (c % 64)>>

Utf8Encode(t) == Flatten([i \in 1..Len(t) |-> Utf8EncodeAt(t, i)], 1, Len(t))

\* the number of continuation bytes the lead byte c asks for
Utf8Need(c) ==
  IF c >= 194 /\ c <= 223 THEN 1
  ELSE IF c >= 224 /\ c <= 239 THEN 2
  ELSE IF c >= 240 /\ c <= 244 THEN 3
  ELSE 0

\* b[i + k] is a valid k-th continuation byte of the lead byte b[i]
Utf8ContOk(b, i, k) ==
  LET c == b[i]
      lo == IF k = 1 /\ c = 224 THEN 160 ELSE IF k = 1 /\ c = 240 THEN 144 ELSE 128
      hi == IF k = 1 /\ c = 237 THEN 159 ELSE IF k = 1 /\ c = 244 THEN 143 ELSE 191
  IN i + k <= Len(b) /\ b[i + k] >= lo /\ b[i + k] <= hi

\* the number of valid continuation bytes that follow the lead byte b[i]
Utf8Taken(b, i) ==
  LET need == Utf8Need(b[i])
      bad == {k \in 1..need : ~Utf8ContOk(b, i, k)}
  IN IF bad = {} THEN need
     ELSE (CHOOSE k \in bad : \A m \in bad : k <= m) - 1

\* b[i] was consumed as a continuation byte of an earlier lead byte
Utf8Consumed(b, i) ==
  \E d \in 1..3 : i - d >= 1 /\ Utf8Taken(b, i - d) >= d

\* the code units decoded at byte i: a complete sequence gives its code
\* point, an ill-formed one gives one U+FFFD for its maximal valid prefix
Utf8DecodeAt(b, i) ==
  LET c == b[i]
      need == Utf8Need(c)
  IN IF Utf8Consumed(b, i) THEN <<>>
     ELSE IF c < 128 THEN <<c>>
     ELSE IF need = 0 \/ Utf8Taken(b, i) < need THEN <<REPLACEMENT_CHAR>>
     ELSE IF need = 1 THEN <<(c - 192) * 64 + (b[i + 1] - 128)>>
     ELSE IF need = 2
     THEN <<(c - 224) * 4096 + (b[i + 1] - 128) * 64 + (b[i + 2] - 128)>>
     ELSE LET cp == (c - 240) * 262144 + (b[i + 1] - 128) * 4096
                    + (b[i + 2] - 128) * 64 + (b[i + 3] - 128) - 65536
          IN <<55296 + (cp \div 1024), 56320 + (cp % 1024)>>

Utf8Decode(b) == Flatten([i \in 1..Len(b) |-> Utf8DecodeAt(b, i)], 1, Len(b))

(***************************************************************************)
(* Base64: buffer.toString('base64') and Buffer.from(text, 'base64').      *)
(***************************************************************************)
\* the character of a 6-bit value in the standard alphabet
Base64Char(v) ==
  IF v < 26 THEN 65 + v
  ELSE IF v < 52 THEN 97 + (v - 26)
  ELSE IF v < 62 THEN 48 + (v - 52)
  ELSE IF v = 62 THEN CH_PLUS ELSE CH_SLASH

\* the 6-bit value of a character, -1 for a character outside the alphabets;
\* the decoder accepts the standard and the URL-safe alphabet
Unbase64(c) ==
  IF c >= 65 /\ c <= 90 THEN c - 65
  ELSE IF c >= 97 /\ c <= 122 THEN c - 97 + 26
  ELSE IF c >= 48 /\ c <= 57 THEN c - 48 + 52
  ELSE IF c = CH_PLUS \/ c = CH_MINUS THEN 62
  ELSE IF c = CH_SLASH \/ c = CH_UNDERSCORE THEN 63
  ELSE -1

\* character k of the encoding: three bytes give four characters, a last
\* group of one or two bytes is padded with '='
Base64EncodeAt(b, k) ==
  LET g == 3 * ((k - 1) \div 4)
      r == (k - 1) % 4
      b0 == b[g + 1]
      b1 == IF g + 2 <= Len(b) THEN b[g + 2] ELSE 0
      b2 == IF g + 3 <= Len(b) THEN b[g + 3] ELSE 0
  IN IF r = 0 THEN Base64Char(b0 \div 4)
     ELSE IF r = 1 THEN Base64Char((b0 % 4) * 16 + (b1 \div 16))
     ELSE IF r = 2
     THEN IF g + 2 > Len(b) THEN CH_EQ
          ELSE Base64Char((b1 % 16) * 4 + (b2 \div 64))
     ELSE IF g + 3 > Len(b) THEN CH_EQ ELSE Base64Char(b2 % 64)

Base64Encode(b) ==
  [k \in 1..(4 * ((Len(b) + 2) \div 3)) |-> Base64EncodeAt(b, k)]

IsBase64Char(c) == Unbase64(c) >= 0

\* the 6-bit values of the legal characters before the first '='; characters
\* outside the alphabets are skipped
Sextets(t) ==
  LET eqs == {i \in 1..Len(t) : t[i] = CH_EQ}
      stop == IF eqs = {} THEN Len(t) + 1
              ELSE CHOOSE i \in eqs : \A j \in eqs : i <= j
      legal == SelectSeq(SubSeq(t, 1, stop - 1), IsBase64Char)
  IN [i \in 1..Len(legal) |-> Unbase64(legal[i])]

\* byte j of the decoding: four characters give three bytes; a trailing group
\* of 2 or 3 characters gives 1 or 2 bytes and the bits left over are
\* dropped, a trailing single character gives none
SextetsToByte(s, j) ==
  LET g == 4 * ((j - 1) \div 3)
      r == (j - 1) % 3
  IN IF r = 0 THEN s[g + 1] * 4 + (s[g + 2] \div 16)
     ELSE IF r = 1 THEN (s[g + 2] % 16) * 16 + (s[g + 3] \div 4)
     ELSE (s[g + 3] % 4) * 64 + s[g + 4]

Base64Decode(t) ==
  LET s == Sextets(t)
  IN [j \in 1..((Len(s) * 6) \div 8) |-> SextetsToByte(s, j)]

toBase64Url(buffer) ==
  StripTrailingEq(
    ReplaceAll(ReplaceAll(Base64Encode(buffer), CH_PLUS, CH_MINUS),
               CH_SLASH, CH_UNDERSCORE))

fromBase64Url(value) ==
  LET normalized == ReplaceAll(ReplaceAll(value, CH_MINUS, CH_PLUS),
                               CH_UNDERSCORE, CH_SLASH)
      paddingLength == (4 - (Len(normalized) % 4)) % 4
      padded == normalized \o Repeat(CH_EQ, paddingLength)
  IN Base64Decode(padded)

(***************************************************************************)
(* node:crypto.  createHmac('sha256', key).update(msg).digest() is         *)
(* abstracted by a keyed mixing function with a digest of DIGEST_BYTES     *)
(* bytes: deterministic, dependent on every byte of the key and of the     *)
(* message.                                                                *)
(***************************************************************************)
MIX_MODULUS == 32749

\* the polynomial of the bytes b[lo], ..., b[hi]: [v, pow] with
\* v = SUM (b[i] + 1) * 31^(hi - i) and pow = 31^(hi - lo + 1), modulo MIX_MODULUS
RECURSIVE MixRange(_, _, _)
MixRange(b, lo, hi) ==
  IF lo > hi THEN [v |-> 0, pow |-> 1]
  ELSE IF lo = hi THEN [v |-> b[lo] + 1, pow |-> 31]
  ELSE LET mid == (lo + hi) \div 2
           l == MixRange(b, lo, mid)
           r == MixRange(b, mid + 1, hi)
       IN [v |-> (l.v * r.pow + r.v) % MIX_MODULUS,
           pow |-> (l.pow * r.pow) % MIX_MODULUS]

\* the state h after absorbing the bytes of b in order
MixInto(p, h) == (h * p.pow + p.v) % MIX_MODULUS
Mix(b, h) == MixInto(MixRange(b, 1, Len(b)), h)

HmacDigest(hk, hm) ==
  [j \in 1..DIGEST_BYTES |->
     ((IF j % 2 = 1 THEN hm % 256 ELSE hm \div 256) + j * 7 + hk * j) % 256]

HmacSha256(key, msg) == HmacDigest(Mix(key, 7), Mix(msg, Mix(key, 7)))

\* crypto.timingSafeEqual(a, b): a RangeError for buffers of different
\* length, otherwise every byte pair is visited, whatever the content
RECURSIVE CompareRange(_, _, _, _)
CompareRange(a, b, lo, hi) ==
  IF lo > hi THEN [diff |-> 0, steps |-> 0]
  ELSE IF lo = hi THEN [diff |-> IF a[lo] = b[lo] THEN 0 ELSE 1, steps |-> 1]
  ELSE LET mid == (lo + hi) \div 2
           l == CompareRange(a, b, lo, mid)
           r == CompareRange(a, b, mid + 1, hi)
       IN [diff |-> IF l.diff = 1 \/ r.diff = 1 THEN 1 ELSE 0,
           steps |-> l.steps + r.steps]

timingSafeEqual(a, b) ==
  IF Len(a) # Len(b)
  THEN [threw |-> TRUE, eq |-> FALSE, steps |-> 0]
  ELSE LET r == CompareRange(a, b, 1, Len(a))
       IN [threw |-> FALSE, eq |-> r.diff = 0, steps |-> r.steps]

(***************************************************************************)
(* JSON values, JSON.stringify and JSON.parse.                             *)
(*                                                                         *)
(* A value is [kind, members]; an object keeps its members in source order *)
(* as [key, kind, lit], lit being the member value's text.  The parser     *)
(* covers the literals true, false and null, integers, strings without     *)
(* escape sequences and objects, with insignificant whitespace; arrays,    *)
(* fractions, exponents and escapes are outside the payloads of this model.*)
(***************************************************************************)
JNull == [kind |-> "null", members |-> <<>>]
JUndefined == [kind |-> "undefined", members |-> <<>>]
JObject(ms) == [kind |-> "object", members |-> ms]

\* the object literal { isAdmin: true }
AdminSession == JObject(<<[key |-> T_isAdmin, kind |-> "true", lit |-> T_true]>>)

RECURSIVE StringifyMembers(_, _)
StringifyMembers(ms, i) ==
  IF i > Len(ms) THEN <<>>
  ELSE (IF i > 1 THEN <<CH_COMMA>> ELSE <<>>)
       \o <<CH_QUOTE>> \o ms[i].key \o <<CH_QUOTE, CH_COLON>> \o ms[i].lit
       \o StringifyMembers(ms, i + 1)

JsonStringify(v) ==
  IF v.kind = "object"
  THEN <<CH_LBRACE>> \o StringifyMembers(v.members, 1) \o <<CH_RBRACE>>
  ELSE IF v.kind = "true" THEN T_true
  ELSE IF v.kind = "false" THEN T_false
  ELSE T_null

IsWs(c) == c \in {32, 9, 10, 13}
IsDigit(c) == c >= 48 /\ c <= 57

RECURSIVE SkipWs(_, _)
SkipWs(t, i) == IF i <= Len(t) /\ IsWs(t[i]) THEN SkipWs(t, i + 1) ELSE i

RECURSIVE SkipDigits(_, _)
SkipDigits(t, i) == IF i <= Len(t) /\ IsDigit(t[i]) THEN SkipDigits(t, i + 1) ELSE i

StartsWith(t, i, lit) ==
  i + Len(lit) - 1 <= Len(t) /\ SubSeq(t, i, i + Len(lit) - 1) = lit

ParseFail == [ok |-> FALSE, kind |-> "undefined", members |-> <<>>, next |-> 0]
Parsed(k, ms, n) == [ok |-> TRUE, kind |-> k, members |-> ms, next |-> n]

\* t[i] is the opening quote; the string ends at the next quote
ParseString(t, i) ==
  LET closes == {j \in (i + 1)..Len(t) : t[j] = CH_QUOTE}
  IN IF closes = {} THEN [ok |-> FALSE, s |-> <<>>, next |-> 0]
     ELSE LET j == CHOOSE c \in closes : \A d \in closes : c <= d
              body == SubSeq(t, i + 1, j - 1)
          IN IF \E k \in 1..Len(body) : body[k] = CH_BACKSLASH \/ body[k] < 32
             THEN [ok |-> FALSE, s |-> <<>>, next |-> 0]
             ELSE [ok |-> TRUE, s |-> body, next |-> j + 1]

RECURSIVE ParseValue(_, _), ParseMembers(_, _, _)
ParseValue(t, i0) ==
  LET i == SkipWs(t, i0)
  IN IF i > Len(t) THEN ParseFail
     ELSE IF StartsWith(t, i, T_true) THEN Parsed("true", <<>>, i + 4)
     ELSE IF StartsWith(t, i, T_false) THEN Parsed("false", <<>>, i + 5)
     ELSE IF StartsWith(t, i, T_null) THEN Parsed("null", <<>>, i + 4)
     ELSE IF IsDigit(t[i])
     THEN Parsed("number", <<>>, IF t[i] = 48 THEN i + 1 ELSE SkipDigits(t, i))
     ELSE IF t[i] = CH_MINUS /\ i < Len(t) /\ IsDigit(t[i + 1])
     THEN Parsed("number", <<>>, IF t[i + 1] = 48 THEN i + 2 ELSE SkipDigits(t, i + 1))
     ELSE IF t[i] = CH_QUOTE
     THEN LET s == ParseString(t, i)
          IN IF s.ok THEN Parsed("string", <<>>, s.next) ELSE ParseFail
     ELSE IF t[i] = CH_LBRACE
     THEN LET j == SkipWs(t, i + 1)
          IN IF j <= Len(t) /\ t[j] = CH_RBRACE
             THEN Parsed("object", <<>>, j + 1)
             ELSE ParseMembers(t, j, <<>>)
     ELSE ParseFail

ParseMembers(t, i, acc) ==
  IF i > Len(t) \/ t[i] # CH_QUOTE THEN ParseFail
  ELSE LET k == ParseString(t, i)
       IN IF ~k.ok THEN ParseFail
          ELSE LET c == SkipWs(t, k.next)
               IN IF c > Len(t) \/ t[c] # CH_COLON THEN ParseFail
                  ELSE LET vs == SkipWs(t, c + 1)
                           v == ParseValue(t, vs)
                       IN IF ~v.ok THEN ParseFail
                          ELSE LET e == SkipWs(t, v.next)
                                   acc2 == Append(acc, [key |-> k.s, kind |-> v.kind,
                                                        lit |-> SubSeq(t, vs, v.next - 1)])
                               IN IF e > Len(t) THEN ParseFail
                                  ELSE IF t[e] = CH_RBRACE
                                  THEN Parsed("object", acc2, e + 1)
                                  ELSE IF t[e] = CH_COMMA
                                  THEN ParseMembers(t, SkipWs(t, e + 1), acc2)
                                  ELSE ParseFail

\* JSON.parse(text): a SyntaxError for a text that is no JSON value
JsonParse(text) ==
  LET v == ParseValue(text, 1)
  IN IF v.ok /\ SkipWs(text, v.next) > Len(text)
     THEN [threw |-> FALSE, val |-> [kind |-> v.kind, members |-> v.members]]
     ELSE [threw |-> TRUE, val |-> JUndefined]

\* the kind of value.key, the last member of that name winning; a property
\* read of a primitive or of a missing member gives undefined
RECURSIVE MemberKind(_, _, _)
MemberKind(ms, key, i) ==
  IF i < 1 THEN "undefined"
  ELSE IF ms[i].key = key THEN ms[i].kind
  ELSE MemberKind(ms, key, i - 1)

\* parsed?.isAdmin === true
IsAdminTrue(v) == MemberKind(v.members, T_isAdmin, Len(v.members)) = "true"

(***************************************************************************)
(* encodeURIComponent and serializeCookie.  The cookie is kept as the pair *)
(* name=value and the array of attribute parts that the code joins.        *)
(***************************************************************************)
HexDigit(n) == IF n < 10 THEN 48 + n ELSE 65 + (n - 10)

\* A-Z a-z 0-9 - _ . ! ~ * ' ( )
IsUriUnreserved(c) ==
  \/ (c >= 65 /\ c <= 90) \/ (c >= 97 /\ c <= 122) \/ (c >= 48 /\ c <= 57)
  \/ c \in {45, 95, 46, 33, 126, 42, 39, 40, 41}

PercentEncodeAt(c) ==
  IF IsUriUnreserved(c) THEN <<c>>
  ELSE <<37, HexDigit(c \div 16), HexDigit(c % 16)>>

PercentEncode(b) == Flatten([i \in 1..Len(b) |-> PercentEncodeAt(b[i])], 1, Len(b))

\* a URIError for a text with a lone surrogate
HasLoneSurrogate(t) ==
  \E i \in 1..Len(t) :
    \/ IsHighSurrogate(t[i]) /\ ~(i < Len(t) /\ IsLowSurrogate(t[i + 1]))
    \/ IsLowSurrogate(t[i]) /\ ~(i > 1 /\ IsHighSurrogate(t[i - 1]))

encodeURIComponent(t) ==
  IF HasLoneSurrogate(t) THEN [threw |-> TRUE, s |-> <<>>]
  ELSE [threw |-> FALSE, s |-> PercentEncode(Utf8Encode(t))]

Part(k, t, n) == [k |-> k, t |-> t, n |-> n]

\* options: [domain, path, sameSite: "" when absent; maxAge, expires:
\* [def, n]; httpOnly, secure: BOOLEAN]
serializeCookie(name, value, options) ==
  LET encodedName == encodeURIComponent(name)
      encodedValue == encodeURIComponent(value)
      label == IF options.sameSite = "none" THEN "None"
               ELSE IF options.sameSite = "strict" THEN "Strict" ELSE "Lax"
      parts ==
        (IF options.domain # "" THEN <<Part("Domain", options.domain, 0)>> ELSE <<>>)
        \o (IF options.path # "" THEN <<Part("Path", options.path, 0)>> ELSE <<>>)
        \o (IF options.maxAge.def THEN <<Part("Max-Age", "", options.maxAge.n)>> ELSE <<>>)
        \o (IF options.expires.def THEN <<Part("Expires", "", options.expires.n)>> ELSE <<>>)
        \o (IF options.httpOnly THEN <<Part("HttpOnly", "", 0)>> ELSE <<>>)
        \o (IF options.secure THEN <<Part("Secure", "", 0)>> ELSE <<>>)
        \o (IF options.sameSite # "" THEN <<Part("SameSite", label, 0)>> ELSE <<>>)
  IN IF encodedName.threw \/ encodedValue.threw
     THEN [threw |-> TRUE, pair |-> <<>>, parts |-> <<>>]
     ELSE [threw |-> FALSE,
           pair |-> encodedName.s \o <<CH_EQ>> \o encodedValue.s,
           parts |-> parts]

NoCookie == [def |-> FALSE, pair |-> <<>>, parts |-> <<>>]
CookieString(c) == [def |-> TRUE, pair |-> c.pair, parts |-> c.parts]

(***************************************************************************)
(* The session codec.                                                      *)
(***************************************************************************)
signPayload(payload, secret) ==
  LET digest == HmacSha256(Utf8Encode(secret), Utf8Encode(payload))
  IN toBase64Url(digest)

\* encodeSession with the two parts of the token in the wrong order
encodeSessionSwapped(data, secret) ==
  LET payload == JsonStringify(data)
      signature == signPayload(payload, secret)
      combined == signature \o <<CH_DOT>> \o payload
  IN toBase64Url(Utf8Encode(combined))

encodeSession(data, secret) ==
  LET payload == JsonStringify(data)
      signature == signPayload(payload, secret)
      combined == payload \o <<CH_DOT>> \o signature
  IN toBase64Url(Utf8Encode(combined))

\* outcome of the try block of decodeSession: a return, a throw, or falling
\* out of the block; steps lists what was executed, in order; compared is
\* the number of byte pairs timingSafeEqual visited
Returned(v, st) ==
  [threw |-> FALSE, returned |-> TRUE, value |-> v, steps |-> st, compared |-> 0]
Thrown(st) ==
  [threw |-> TRUE, returned |-> FALSE, value |-> JNull, steps |-> st,
   compared |-> 0]
FellThrough(st) ==
  [threw |-> FALSE, returned |-> FALSE, value |-> JNull, steps |-> st,
   compared |-> 0]

\* decodeSessionClaim returning the parsed payload itself
decodeSessionClaimParsed(parsed) ==
  IF parsed.threw THEN Thrown(<<"decode", "sign", "length", "compare", "parse">>)
  ELSE IF IsAdminTrue(parsed.val)
  THEN Returned(parsed.val, <<"decode", "sign", "length", "compare", "parse">>)
  ELSE FellThrough(<<"decode", "sign", "length", "compare", "parse">>)

\* lines 133-136: the payload is parsed and the claim is built afresh
decodeSessionClaim(parsed) ==
  IF parsed.threw THEN Thrown(<<"decode", "sign", "length", "compare", "parse">>)
  ELSE IF IsAdminTrue(parsed.val)
  THEN Returned(AdminSession, <<"decode", "sign", "length", "compare", "parse">>)
  ELSE FellThrough(<<"decode", "sign", "length", "compare", "parse">>)

\* decodeSessionCompared with the outcome of timingSafeEqual not looked at
decodeSessionComparedUnchecked(payload, cmp) ==
  IF cmp.threw THEN Thrown(<<"decode", "sign", "length", "compare">>)
  ELSE decodeSessionClaim(JsonParse(payload))

\* lines 129-133: the outcome of timingSafeEqual decides whether the payload
\* is parsed
decodeSessionCompared(payload, cmp) ==
  [(IF cmp.threw THEN Thrown(<<"decode", "sign", "length", "compare">>)
    ELSE IF ~cmp.eq
    THEN Returned(JNull, <<"decode", "sign", "length", "compare">>)
    ELSE decodeSessionClaim(JsonParse(payload)))
   EXCEPT !.compared = cmp.steps]

\* lines 125-129
decodeSessionBuffers(payload, providedBuffer, expectedBuffer) ==
  IF Len(providedBuffer) # Len(expectedBuffer)
  THEN Returned(JNull, <<"decode", "sign", "length">>)
  ELSE decodeSessionCompared(payload, timingSafeEqual(providedBuffer, expectedBuffer))

\* lines 120-123
decodeSessionSigned(payload, providedSignature, secret) ==
  decodeSessionBuffers(payload, fromBase64Url(providedSignature),
                       fromBase64Url(signPayload(payload, secret)))

\* lines 113-119
decodeSessionDecoded(decoded, secret) ==
  IF LastIndexOf(decoded, CH_DOT) = -1 THEN Returned(JNull, <<"decode">>)
  ELSE decodeSessionSigned(
         Slice(decoded, 0, LastIndexOf(decoded, CH_DOT)),
         Slice(decoded, LastIndexOf(decoded, CH_DOT) + 1, Len(decoded)),
         secret)

\* the try block, lines 111-136
decodeSessionTry(raw, secret) ==
  decodeSessionDecoded(Utf8Decode(fromBase64Url(raw)), secret)

\* the catch block and the final return null, lines 137-141
decodeSessionCatch(r) ==
  IF r.threw
  THEN [threw |-> FALSE, value |-> JNull, steps |-> r.steps,
        compared |-> r.compared]
  ELSE IF r.returned
  THEN [threw |-> FALSE, value |-> r.value, steps |-> r.steps,
        compared |-> r.compared]
  ELSE [threw |-> FALSE, value |-> JNull, steps |-> r.steps,
        compared |-> r.compared]

\* result: [threw, value, steps, compared]
decodeSession(raw, secret) ==
  IF ~Truthy(secret)
  THEN [threw |-> FALSE, value |-> JNull, steps |-> <<>>, compared |-> 0]
  ELSE decodeSessionCatch(decodeSessionTry(raw, secret.s))

\* constantTimeCompare that stops at the first byte that differs
constantTimeCompareEarlyExit(input, secret) ==
  LET provided == Utf8Encode(input)
      expected == Utf8Encode(secret)
      differs == {i \in 1..Len(provided) : provided[i] # expected[i]}
  IN IF Len(provided) # Len(expected)
     THEN [threw |-> FALSE, eq |-> FALSE, steps |-> 0]
     ELSE IF differs = {}
     THEN [threw |-> FALSE, eq |-> TRUE, steps |-> Len(provided)]
     ELSE [threw |-> FALSE, eq |-> FALSE,
           steps |-> CHOOSE i \in differs : \A j \in differs : i <= j]

\* constantTimeCompare that stops after the length check
constantTimeCompareLengthOnly(input, secret) ==
  LET provided == Utf8Encode(input)
      expected == Utf8Encode(secret)
  IN [threw |-> FALSE, eq |-> Len(provided) = Len(expected), steps |-> 0]

constantTimeCompare(input, secret) ==
  LET provided == Utf8Encode(input)
      expected == Utf8Encode(secret)
  IN IF Len(provided) # Len(expected)
     THEN [threw |-> FALSE, eq |-> FALSE, steps |-> 0]
     ELSE timingSafeEqual(provided, expected)

(***************************************************************************)
(* State.                                                                  *)
(***************************************************************************)
VARIABLES
  hasProcess,   \* typeof process !== 'undefined'
  processEnv,   \* process.env.ADMIN_PASSWORD: string | undefined
  buildEnv,     \* import.meta.env.ADMIN_PASSWORD: string | undefined
  prod,         \* import.meta.env.PROD
  last,         \* the call that has just returned and its outcome
  firstSecret,  \* history: what the first readSecret() of the process gave
  jar           \* the admin_session cookie the browser of the admin holds

browserVars == <<jar>>

\* r2.ts
VARIABLES
  storageEnv,   \* import.meta.env.R2_*: string | undefined, fixed by the build
  cachedConfig, \* the module variable cachedConfig
  configFailed, \* history: an ensureConfig call of this process has thrown
  clock,        \* the instant new Date() gives: an index into Instants
  call,         \* the storage call that has just settled and its outcome
  prev          \* history: the signing data of an earlier call

VARIABLES
  client,       \* the module variable client of getR2Client
  diag,         \* the outcome of the diagnostic GET handler
  racers        \* callers of ensureConfig, statement by statement

handlerVars == <<client, diag, racers>>

storageVars ==
  <<storageEnv, cachedConfig, configFailed, clock, call, prev, handlerVars>>

vars ==
  <<hasProcess, processEnv, buildEnv, prod, last, firstSecret, browserVars,
    storageVars>>

\* cachedConfig = null
NullConfig ==
  [set |-> FALSE, accountId |-> <<>>, bucket |-> <<>>, endpoint |-> <<>>,
   accessKeyId |-> <<>>, secretAccessKey |-> <<>>, forcePathStyle |-> FALSE]

\* import.meta.env with no R2_* variable
NoStorageEnv ==
  [accountId |-> Undefined, bucket |-> Undefined, endpoint |-> Undefined,
   accessKeyId |-> Undefined, secretAccessKey |-> Undefined,
   forcePathStyle |-> Undefined]

\* no storage call is in progress or waiting to be taken
NoStorageCall == [op |-> "none"]

\* client before getR2Client has made one
NullClient == [set |-> FALSE, config |-> NullConfig]

\* no diagnostic request has been handled
NoDiag == [op |-> "none"]

\* a caller of ensureConfig: the statement it is at, whether it has read
\* import.meta.env, whether it has thrown, and the configuration it holds
Racer(pc, readEnv, threw, config) ==
  [pc |-> pc, readEnv |-> readEnv, threw |-> threw, config |-> config]

\* the storage module as loaded, nothing called yet
StorageLoaded(env) ==
  /\ storageEnv = env
  /\ cachedConfig = NullConfig
  /\ configFailed = FALSE
  /\ clock = 1
  /\ call = NoStorageCall
  /\ prev = NoStorageCall
  /\ client = NullClient
  /\ diag = NoDiag
  /\ racers = [i \in 1..NumRacers |-> Racer("start", FALSE, FALSE, NullConfig)]

(***************************************************************************)
(* Inputs.                                                                 *)
(***************************************************************************)
\* 's1', 's2', ...
Secret(i) == <<115, 48 + i>>
Secrets == {Secret(i) : i \in 1..NumSecrets}

EnvValues == {Undefined, Some(<<>>)} \cup {Some(s) : s \in Secrets}

\* values of type unknown handed to verifyAdminPassword
StringValue(t) == [type |-> "string", s |-> t]
OtherValue(ty) == [type |-> ty, s |-> <<>>]
Candidates ==
  {StringValue(s) : s \in Secrets}
  \cup {StringValue(<<>>), StringValue(<<115>>), StringValue(<<115, 49, 120>>),
        StringValue(<<115, 57>>), StringValue(<<120, 49>>), StringValue(<<233>>),
        StringValue(<<55296>>),
        OtherValue("undefined"), OtherValue("number"), OtherValue("object")}

\* payload texts: the claim, other JSON values and texts that are no JSON
P_claim == <<123,34,105,115,65,100,109,105,110,34,58,116,114,117,101,125>>
P_false == <<123,34,105,115,65,100,109,105,110,34,58,102,97,108,115,101,125>>
P_emptyObject == <<123,125>>
P_extraField == <<123,34,105,115,65,100,109,105,110,34,58,116,114,117,101,44,34,120,34,58,49,125>>
P_number == <<123,34,105,115,65,100,109,105,110,34,58,49,125>>
P_spaced == <<32,123,34,105,115,65,100,109,105,110,34,32,58,32,116,114,117,101,125,32>>
P_notJson == <<97,100,109,105,110>>
P_truncated == <<123,34,105,115,65,100,109,105,110,34,58,116,114,117,101>>
Payloads == {P_claim, P_false, P_emptyObject, T_null, T_true, P_extraField,
             P_number, P_spaced, P_notJson, P_truncated}

\* the token of an arbitrary payload text, signed with a secret
SignedToken(payload, secret) ==
  toBase64Url(Utf8Encode(payload \o <<CH_DOT>> \o signPayload(payload, secret)))

\* the text t with the character c inserted after its first n characters
InsertAt(t, n, c) == SubSeq(t, 1, n) \o <<c>> \o SubSeq(t, n + 1, Len(t))

\* cookie values a request may carry
RawTokens ==
  {encodeSession(AdminSession, s) : s \in Secrets}               \* issued cookies
  \cup {SignedToken(p, s) : p \in Payloads, s \in Secrets}
  \cup {InsertAt(SignedToken(P_claim, s), 8, 33) : s \in Secrets}   \* '!' inside
  \cup {InsertAt(SignedToken(P_claim, s), 8, 32) : s \in Secrets}   \* ' ' inside
  \cup {toBase64Url(Utf8Encode(P_claim)),                        \* no separator
        toBase64Url(Utf8Encode(P_claim \o <<CH_DOT>>)),           \* empty signature
        toBase64Url(Utf8Encode(P_claim \o <<CH_DOT, 65, 66, 67>>)), \* short signature
        toBase64Url(<<123, 255, 46, 200>>),                       \* not UTF-8
        <<37, 37, 37>>,                                           \* not base64url
        <<46>>,
        <<>>}

Cookies == {Undefined} \cup {Some(t) : t \in RawTokens}

\* values of Date.now(), in seconds
Nows == {1000, 2000}

\* the signature segment of a token: the text after the last '.' of the
\* decoded token
SignatureSegment(token) ==
  LET decoded == Utf8Decode(fromBase64Url(token))
      separator == LastIndexOf(decoded, CH_DOT)
  IN Slice(decoded, separator + 1, Len(decoded))

\* the bytes with bit `bit` of byte `at` flipped
FlipByteBit(bytes, at, bit) ==
  [i \in 1..Len(bytes) |-> IF i = at THEN FlipBit(bytes[i], bit) ELSE bytes[i]]

\* the token with bit `bit` of character `pos` of its signature segment flipped
FlipSignatureBit(token, pos, bit) ==
  toBase64Url(
    FlipByteBit(fromBase64Url(token),
                LastIndexOf(Utf8Decode(fromBase64Url(token)), CH_DOT) + 1 + pos,
                bit))

(***************************************************************************)
(* The exported functions.                                                 *)
(***************************************************************************)
\* proc: typeof process !== 'undefined'; env: process.env.ADMIN_PASSWORD;
\* metaEnv: import.meta.env.ADMIN_PASSWORD
\* readSecret preferring the build-time value
readSecretFallbackFirst(proc, env, metaEnv) ==
  LET secret == IF proc THEN env ELSE Undefined
      fallback == metaEnv
      value == Nullish(fallback, secret)
  IN IF ~Truthy(value) \/ Len(value.s) = 0 THEN Undefined ELSE value

\* readSecret keeping the first value it resolved in a module-level cache
readSecretCached(proc, env, metaEnv) ==
  LET secret == IF proc THEN env ELSE Undefined
      fallback == metaEnv
      value == Nullish(secret, fallback)
  IN IF firstSecret.def THEN firstSecret.v
     ELSE IF ~Truthy(value) \/ Len(value.s) = 0 THEN Undefined ELSE value

readSecret(proc, env, metaEnv) ==
  LET secret == IF proc THEN env ELSE Undefined
      fallback == metaEnv
      value == Nullish(secret, fallback)
  IN IF ~Truthy(value) \/ Len(value.s) = 0 THEN Undefined ELSE value

isAdminSecretConfigured == Truthy(readSecret(hasProcess, processEnv, buildEnv))

\* lines 169-174: the comparison and its catch block
verifyAdminPasswordCompared(r, secret) ==
  [threw |-> FALSE, ret |-> IF r.threw THEN FALSE ELSE r.eq,
   read |-> TRUE, secret |-> secret, compared |-> r.steps]

\* result: [threw, ret, read, secret]; read tells whether readSecret was called
verifyAdminPassword(candidate) ==
  IF candidate.type # "string"
  THEN [threw |-> FALSE, ret |-> FALSE, read |-> FALSE, secret |-> Undefined,
        compared |-> 0]
  ELSE IF ~Truthy(readSecret(hasProcess, processEnv, buildEnv))
  THEN [threw |-> FALSE, ret |-> FALSE, read |-> TRUE,
        secret |-> readSecret(hasProcess, processEnv, buildEnv),
        compared |-> 0]
  ELSE verifyAdminPasswordCompared(
         constantTimeCompare(candidate.s,
                             readSecret(hasProcess, processEnv, buildEnv).s),
         readSecret(hasProcess, processEnv, buildEnv))

SessionCookieOptions(maxAge, expires) ==
  [domain |-> "", path |-> "/", httpOnly |-> TRUE, sameSite |-> "lax",
   secure |-> prod, maxAge |-> [def |-> TRUE, n |-> maxAge],
   expires |-> [def |-> TRUE, n |-> expires]]

\* lines 187-198: the serialized cookie, or null from the catch block
setAdminSessionCookie(c, value, secret) ==
  IF c.threw
  THEN [threw |-> FALSE, cookie |-> NoCookie, value |-> <<>>, secret |-> secret]
  ELSE [threw |-> FALSE, cookie |-> CookieString(c), value |-> value,
        secret |-> secret]

\* setAdminSessionValue with the lifetime of the cookie left at zero
setAdminSessionValueExpired(value, now, secret) ==
  setAdminSessionCookie(
    serializeCookie(SESSION_COOKIE, value, SessionCookieOptions(0, now)),
    value, secret)

\* lines 185-194
setAdminSessionValue(value, now, secret) ==
  setAdminSessionCookie(
    serializeCookie(SESSION_COOKIE, value,
                    SessionCookieOptions(SESSION_TTL_SECONDS,
                                         now + SESSION_TTL_SECONDS)),
    value, secret)

\* setAdminSession without the check of the secret
setAdminSessionUnchecked(now) ==
  setAdminSessionValue(
    encodeSession(AdminSession, readSecret(hasProcess, processEnv, buildEnv).s),
    now, readSecret(hasProcess, processEnv, buildEnv))

\* result: [threw, cookie, value, secret]; cookie is NoCookie for a null
\* return, value is the token put into the cookie
setAdminSession(now) ==
  IF ~Truthy(readSecret(hasProcess, processEnv, buildEnv))
  THEN [threw |-> FALSE, cookie |-> NoCookie, value |-> <<>>,
        secret |-> readSecret(hasProcess, processEnv, buildEnv)]
  ELSE setAdminSessionValue(
         encodeSession(AdminSession, readSecret(hasProcess, processEnv, buildEnv).s),
         now, readSecret(hasProcess, processEnv, buildEnv))

\* line 207: the outcome of decodeSession under the secret just read
getAdminSessionDecoded(r, secret) ==
  [threw |-> r.threw, value |-> r.value, steps |-> r.steps,
   compared |-> r.compared, read |-> TRUE,
   secret |-> secret]

\* cookie: the value of the admin_session cookie of the request, Undefined
\* when the request carries none; result: [threw, value, steps, read, secret]
getAdminSession(cookie) ==
  IF ~Truthy(cookie)
  THEN [threw |-> FALSE, value |-> JNull, steps |-> <<>>, compared |-> 0,
        read |-> FALSE,
        secret |-> Undefined]
  ELSE getAdminSessionDecoded(
         decodeSession(cookie.s, readSecret(hasProcess, processEnv, buildEnv)),
         readSecret(hasProcess, processEnv, buildEnv))

clearAdminSessionCookie(c) ==
  [threw |-> c.threw, cookie |-> IF c.threw THEN NoCookie ELSE CookieString(c)]

clearAdminSession ==
  clearAdminSessionCookie(
    serializeCookie(SESSION_COOKIE, <<>>, SessionCookieOptions(0, 0)))

(***************************************************************************)
(* The state machine.  The process is single-threaded: a call of an        *)
(* exported function runs to completion (one action), its outcome stays in *)
(* `last` until the caller has taken it (Return), and between two calls    *)
(* the environment may replace process.env.ADMIN_PASSWORD.                 *)
(***************************************************************************)
NoTamper == [on |-> FALSE, base |-> <<>>, pos |-> 0, bit |-> 0]

Call(op) ==
  [op |-> op, candidate |-> OtherValue("undefined"), cookie |-> Undefined,
   tamper |-> NoTamper, now |-> 0, threw |-> FALSE, read |-> FALSE,
   secret |-> Undefined, ok |-> FALSE, session |-> JNull, setCookie |-> NoCookie,
   token |-> <<>>, steps |-> <<>>, compared |-> 0]

Idle == last.op = "none"

\* the browser holds no admin_session cookie; by: what put the jar into this
\* state ("none", "login", "logout"); secret: the secret the login used
NoJar == [def |-> FALSE, s |-> <<>>, by |-> "none", secret |-> Undefined]

NotResolved == [def |-> FALSE, v |-> Undefined]

\* firstSecret after a call that did (read) or did not call readSecret
Resolve(read, secret) ==
  IF read /\ ~firstSecret.def THEN [def |-> TRUE, v |-> secret] ELSE firstSecret

Init ==
  /\ hasProcess \in BOOLEAN
  /\ processEnv \in EnvValues
  /\ hasProcess = FALSE => processEnv = Undefined
  /\ buildEnv \in EnvValues
  /\ prod \in BOOLEAN
  /\ last = Call("none")
  /\ firstSecret = NotResolved
  /\ jar = NoJar
  /\ StorageLoaded(NoStorageEnv)

VerifyAdminPassword(candidate) ==
  /\ Idle
  /\ \E r \in {verifyAdminPassword(candidate)} :
        /\ last' = [Call("verifyAdminPassword") EXCEPT
                      !.candidate = candidate, !.threw = r.threw, !.ok = r.ret,
                      !.compared = r.compared,
                      !.read = r.read, !.secret = r.secret]
        /\ firstSecret' = Resolve(r.read, r.secret)
  /\ UNCHANGED <<hasProcess, processEnv, buildEnv, prod>>
  /\ UNCHANGED storageVars
  /\ UNCHANGED browserVars

SetAdminSession(now) ==
  /\ Idle
  /\ \E r \in {setAdminSession(now)} :
        /\ last' = [Call("setAdminSession") EXCEPT
                      !.now = now, !.threw = r.threw, !.setCookie = r.cookie,
                      !.token = r.value, !.read = TRUE, !.secret = r.secret]
        /\ firstSecret' = Resolve(TRUE, r.secret)
  /\ UNCHANGED <<hasProcess, processEnv, buildEnv, prod>>
  /\ UNCHANGED storageVars
  /\ UNCHANGED browserVars

GetAdminSession(cookie) ==
  /\ Idle
  /\ \E r \in {getAdminSession(cookie)} :
        /\ last' = [Call("getAdminSession") EXCEPT
                      !.cookie = cookie, !.threw = r.threw, !.session = r.value,
                      !.steps = r.steps, !.compared = r.compared,
                      !.read = r.read, !.secret = r.secret]
        /\ firstSecret' = Resolve(r.read, r.secret)
  /\ UNCHANGED <<hasProcess, processEnv, buildEnv, prod>>
  /\ UNCHANGED storageVars
  /\ UNCHANGED browserVars

ClearAdminSession ==
  /\ Idle
  /\ \E r \in {clearAdminSession} :
        last' = [Call("clearAdminSession") EXCEPT
                   !.threw = r.threw, !.setCookie = r.cookie]
  /\ UNCHANGED <<hasProcess, processEnv, buildEnv, prod, firstSecret>>
  /\ UNCHANGED storageVars
  /\ UNCHANGED browserVars

IsAdminSecretConfigured ==
  /\ Idle
  /\ \E secret \in {readSecret(hasProcess, processEnv, buildEnv)} :
        /\ last' = [Call("isAdminSecretConfigured") EXCEPT
                      !.ok = isAdminSecretConfigured, !.read = TRUE,
                      !.secret = secret]
        /\ firstSecret' = Resolve(TRUE, secret)
  /\ UNCHANGED <<hasProcess, processEnv, buildEnv, prod>>
  /\ UNCHANGED storageVars
  /\ UNCHANGED browserVars

\* the caller has taken the outcome of the call
Return ==
  /\ ~Idle
  /\ last' = Call("none")
  /\ UNCHANGED <<hasProcess, processEnv, buildEnv, prod, firstSecret>>
  /\ UNCHANGED storageVars
  /\ UNCHANGED browserVars

SetProcessEnv(value) ==
  /\ Idle
  /\ hasProcess
  /\ value # processEnv
  /\ processEnv' = value
  /\ UNCHANGED <<hasProcess, buildEnv, prod, last, firstSecret>>
  /\ UNCHANGED storageVars
  /\ UNCHANGED browserVars

Next ==
  \/ \E c \in Candidates : VerifyAdminPassword(c)
  \/ \E now \in Nows : SetAdminSession(now)
  \/ \E cookie \in Cookies : GetAdminSession(cookie)
  \/ ClearAdminSession
  \/ IsAdminSecretConfigured
  \/ Return
  \/ \E v \in EnvValues : SetProcessEnv(v)

Spec == Init /\ [][Next]_vars

(***************************************************************************)
(* The tampering experiment: a session cookie is issued, and a request     *)
(* comes back with one bit of the signature segment of that cookie         *)
(* flipped.                                                                *)
(***************************************************************************)
InitTamper ==
  /\ hasProcess = TRUE
  /\ processEnv \in {Some(s) : s \in Secrets}
  /\ buildEnv = Undefined
  /\ prod = FALSE
  /\ last = Call("none")
  /\ firstSecret = NotResolved
  /\ jar = NoJar
  /\ StorageLoaded(NoStorageEnv)

GetTamperedSession(pos, bit) ==
  /\ last.op = "setAdminSession"
  /\ last.setCookie.def
  /\ pos \in 1..Len(SignatureSegment(last.token))
  /\ \E cookie \in {Some(FlipSignatureBit(last.token, pos, bit))} :
       \E r \in {getAdminSession(cookie)} :
         last' = [Call("getAdminSession") EXCEPT
                    !.cookie = cookie, !.threw = r.threw, !.session = r.value,
                    !.steps = r.steps, !.compared = r.compared,
                    !.read = r.read, !.secret = r.secret,
                    !.tamper = [on |-> TRUE, base |-> last.token, pos |-> pos,
                                bit |-> bit]]
  /\ UNCHANGED <<hasProcess, processEnv, buildEnv, prod, firstSecret>>
  /\ UNCHANGED storageVars
  /\ UNCHANGED browserVars

NextTamper ==
  \/ \E now \in Nows : SetAdminSession(now)
  \/ \E pos \in 1..(2 * DIGEST_BYTES), bit \in 0..7 : GetTamperedSession(pos, bit)

SpecTamper == InitTamper /\ [][NextTamper]_vars


(***************************************************************************)
(* Login and logout over the cookie jar of one browser.  The browser       *)
(* applies the Set-Cookie string a login or logout returns (a Max-Age of   *)
(* zero or less removes the cookie) and sends what it holds with the next  *)
(* request; cookies.get hands the URI-decoded value to getAdminSession.    *)
(***************************************************************************)
\* the value of a hexadecimal digit
HexValue(c) == IF c >= 97 THEN c - 87 ELSE IF c >= 65 THEN c - 55 ELSE c - 48

\* cookies.get(...).value of a stored cookie text: the %XX escapes of the
\* text are replaced by their bytes, which are read as UTF-8
decodeURIComponent(t) ==
  Utf8Decode(
    Flatten([i \in 1..Len(t) |->
               IF (i > 1 /\ t[i - 1] = 37) \/ (i > 2 /\ t[i - 2] = 37) THEN <<>>
               ELSE IF t[i] = 37 /\ i + 2 <= Len(t)
               THEN <<16 * HexValue(t[i + 1]) + HexValue(t[i + 2])>>
               ELSE <<t[i]>>],
            1, Len(t)))

\* the jar after the browser has applied the cookie string c
StoreCookie(c, by, secret) ==
  LET eq == CHOOSE i \in 1..Len(c.pair) :
              c.pair[i] = CH_EQ /\ \A j \in 1..(i - 1) : c.pair[j] # CH_EQ
      maxAge == SelectSeq(c.parts, LAMBDA part : part.k = "Max-Age")
  IN IF maxAge # <<>> /\ maxAge[Len(maxAge)].n <= 0
     THEN [def |-> FALSE, s |-> <<>>, by |-> by, secret |-> secret]
     ELSE [def |-> TRUE, s |-> SubSeq(c.pair, eq + 1, Len(c.pair)), by |-> by,
           secret |-> secret]

\* cookies.get(SESSION_COOKIE) of a request from the browser
JarCookie == IF jar.def THEN Some(decodeURIComponent(jar.s)) ELSE Undefined

\* a login: setAdminSession, and the browser applies the cookie it returned
Login(now) ==
  /\ Idle
  /\ \E r \in {setAdminSession(now)} :
        /\ last' = [Call("setAdminSession") EXCEPT
                      !.now = now, !.threw = r.threw, !.setCookie = r.cookie,
                      !.token = r.value, !.read = TRUE, !.secret = r.secret]
        /\ firstSecret' = Resolve(TRUE, r.secret)
        /\ jar' = IF r.cookie.def THEN StoreCookie(r.cookie, "login", r.secret)
                  ELSE jar
  /\ UNCHANGED <<hasProcess, processEnv, buildEnv, prod>>
  /\ UNCHANGED storageVars

\* a logout: clearAdminSession, and the browser applies the cookie
Logout ==
  /\ Idle
  /\ \E r \in {clearAdminSession} :
        /\ last' = [Call("clearAdminSession") EXCEPT
                      !.threw = r.threw, !.setCookie = r.cookie]
        /\ jar' = IF r.cookie.def THEN StoreCookie(r.cookie, "logout", Undefined)
                  ELSE jar
  /\ UNCHANGED <<hasProcess, processEnv, buildEnv, prod, firstSecret>>
  /\ UNCHANGED storageVars

\* a request of the browser: getAdminSession on the cookie the jar holds
Visit ==
  /\ Idle
  /\ \E r \in {getAdminSession(JarCookie)} :
        /\ last' = [Call("getAdminSession") EXCEPT
                      !.cookie = JarCookie, !.threw = r.threw,
                      !.session = r.value, !.steps = r.steps,
                      !.compared = r.compared, !.read = r.read,
                      !.secret = r.secret]
        /\ firstSecret' = Resolve(r.read, r.secret)
  /\ UNCHANGED <<hasProcess, processEnv, buildEnv, prod>>
  /\ UNCHANGED storageVars
  /\ UNCHANGED browserVars

NextJar ==
  \/ \E now \in Nows : Login(now)
  \/ Logout
  \/ Visit
  \/ Return
  \/ \E v \in EnvValues : SetProcessEnv(v)

SpecJar == Init /\ [][NextJar]_vars

(***************************************************************************)
(* r2.ts: the storage configuration.                                       *)
(***************************************************************************)
\* String.prototype.toLowerCase on ASCII text
ToLowerCase(t) ==
  [i \in 1..Len(t) |-> IF t[i] >= 65 /\ t[i] <= 90 THEN t[i] + 32 ELSE t[i]]

\* the configuration read from import.meta.env (lines 95-100, 106-113)
ConfigFromEnv ==
  [set |-> TRUE, accountId |-> storageEnv.accountId.s,
   bucket |-> storageEnv.bucket.s, endpoint |-> storageEnv.endpoint.s,
   accessKeyId |-> storageEnv.accessKeyId.s,
   secretAccessKey |-> storageEnv.secretAccessKey.s,
   forcePathStyle |->
     ToLowerCase(Nullish(storageEnv.forcePathStyle, Some(<<>>)).s)
       = <<116, 114, 117, 101>>]

\* ensureConfig that caches nothing
ensureConfigUncached ==
  IF ~Truthy(storageEnv.accountId) \/ ~Truthy(storageEnv.bucket)
     \/ ~Truthy(storageEnv.endpoint) \/ ~Truthy(storageEnv.accessKeyId)
     \/ ~Truthy(storageEnv.secretAccessKey)
  THEN [threw |-> TRUE, config |-> NullConfig, readEnv |-> TRUE,
        cache |-> cachedConfig]
  ELSE [threw |-> FALSE, readEnv |-> TRUE, cache |-> cachedConfig,
        config |-> ConfigFromEnv]

\* ensureConfig whose check leaves out the endpoint
ensureConfigEndpointUnchecked ==
  IF cachedConfig.set
  THEN [threw |-> FALSE, config |-> cachedConfig, readEnv |-> FALSE,
        cache |-> cachedConfig]
  ELSE IF ~Truthy(storageEnv.accountId) \/ ~Truthy(storageEnv.bucket)
          \/ ~Truthy(storageEnv.accessKeyId)
          \/ ~Truthy(storageEnv.secretAccessKey)
  THEN [threw |-> TRUE, config |-> NullConfig, readEnv |-> TRUE,
        cache |-> cachedConfig]
  ELSE [threw |-> FALSE, readEnv |-> TRUE,
        config |-> ConfigFromEnv, cache |-> ConfigFromEnv]

\* result: [threw, config, readEnv, cache]; readEnv tells whether
\* import.meta.env was read, cache is cachedConfig after the call
ensureConfig ==
  IF cachedConfig.set
  THEN [threw |-> FALSE, config |-> cachedConfig, readEnv |-> FALSE,
        cache |-> cachedConfig]
  ELSE IF ~Truthy(storageEnv.accountId) \/ ~Truthy(storageEnv.bucket)
          \/ ~Truthy(storageEnv.endpoint) \/ ~Truthy(storageEnv.accessKeyId)
          \/ ~Truthy(storageEnv.secretAccessKey)
  THEN [threw |-> TRUE, config |-> NullConfig, readEnv |-> TRUE,
        cache |-> cachedConfig]
  ELSE [threw |-> FALSE, readEnv |-> TRUE,
        config |-> ConfigFromEnv,
        cache |-> ConfigFromEnv]

(***************************************************************************)
(* r2.ts: the helpers of signedFetch.                                      *)
(***************************************************************************)
\* a < b on strings: the order of their UTF-16 code units
LessThan(a, b) ==
  \E i \in 1..(Len(b)) :
    /\ \A j \in 1..(i - 1) : j <= Len(a) /\ a[j] = b[j]
    /\ (i > Len(a) \/ (i - 1 < Len(a) /\ a[i] < b[i]))

\* Array.prototype.join
Join(parts, sep) ==
  Flatten([i \in 1..(2 * Len(parts) - 1) |->
             IF i % 2 = 1 THEN parts[(i + 1) \div 2] ELSE sep],
          1, 2 * Len(parts) - 1)

\* String.prototype.split on one character
Split(t, c) ==
  LET cuts == {i \in 1..Len(t) : t[i] = c}
      starts == {1} \cup {i + 1 : i \in cuts}
      nth(k) == CHOOSE i \in starts : Cardinality({j \in starts : j < i}) = k - 1
      stop(i) == IF \E j \in cuts : j >= i
                 THEN (CHOOSE j \in cuts : j >= i /\ \A q \in cuts : q >= i => j <= q) - 1
                 ELSE Len(t)
  IN [k \in 1..Cardinality(starts) |-> SubSeq(t, nth(k), stop(nth(k)))]

\* the decimal digits of n, padded with zeros to the width
Digits(n, width) ==
  [i \in 1..width |-> 48 + ((n \div (10 ^ (width - i))) % 10)]

\* buffer.toString('hex') / digest('hex')
Hex(bytes) ==
  [i \in 1..(2 * Len(bytes)) |->
     LET b == bytes[(i + 1) \div 2]
         n == IF i % 2 = 1 THEN b \div 16 ELSE b % 16
     IN IF n < 10 THEN 48 + n ELSE 87 + n]

\* result: [threw, s]
encodeRfc3986(value) ==
  LET encoded == encodeURIComponent(value)
  IN IF encoded.threw THEN encoded
     ELSE [threw |-> FALSE,
           s |-> Flatten([i \in 1..Len(encoded.s) |->
                            IF encoded.s[i] \in {33, 39, 40, 41, 42}
                            THEN <<37, HexDigit(encoded.s[i] \div 16),
                                   HexDigit(encoded.s[i] % 16)>>
                            ELSE <<encoded.s[i]>>],
                         1, Len(encoded.s))]

\* createHash('sha256'), abstracted like createHmac: an unkeyed digest
hashSha256(value) == Hex(HmacDigest(11, Mix(value, 11)))

createSigningKey(secret, dateStamp) ==
  LET kDate == HmacSha256(Utf8Encode(<<65, 87, 83, 52>> \o secret), Utf8Encode(dateStamp))
      kRegion == HmacSha256(kDate, <<97, 117, 116, 111>>)
      kService == HmacSha256(kRegion, <<115, 51>>)
  IN HmacSha256(kService, <<97, 119, 115, 52, 95, 114, 101, 113, 117, 101, 115, 116>>)

\* endpoint.replace(/\/$/, '')
normaliseEndpoint(endpoint) ==
  IF Len(endpoint) > 0 /\ endpoint[Len(endpoint)] = CH_SLASH
  THEN SubSeq(endpoint, 1, Len(endpoint) - 1)
  ELSE endpoint

\* buildCanonicalQuery without the sort
buildCanonicalQueryUnsorted(query) ==
  IF ~query.def THEN [threw |-> FALSE, s |-> <<>>]
  ELSE IF \E i \in 1..Len(query.entries) :
            \/ encodeRfc3986(query.entries[i].name).threw
            \/ encodeRfc3986(query.entries[i].value).threw
  THEN [threw |-> TRUE, s |-> <<>>]
  ELSE [threw |-> FALSE,
        s |-> Join([i \in 1..Len(query.entries) |->
                      encodeRfc3986(query.entries[i].name).s \o <<CH_EQ>>
                        \o encodeRfc3986(query.entries[i].value).s],
                   <<38>>)]

\* query: [def, entries], entries being Object.entries(query) as a sequence
\* of [name, value]; result: [threw, s].  Array.prototype.sort is stable:
\* a pair goes behind the pairs with a smaller name and behind the earlier
\* pairs with an equal name.
buildCanonicalQuery(query) ==
  IF ~query.def THEN [threw |-> FALSE, s |-> <<>>]
  ELSE IF \E i \in 1..Len(query.entries) :
            \/ encodeRfc3986(query.entries[i].name).threw
            \/ encodeRfc3986(query.entries[i].value).threw
  THEN [threw |-> TRUE, s |-> <<>>]
  ELSE LET parts == [i \in 1..Len(query.entries) |->
                       [name |-> encodeRfc3986(query.entries[i].name).s,
                        value |-> encodeRfc3986(query.entries[i].value).s]]
           rank(i) == Cardinality({j \in 1..Len(parts) :
                                     \/ LessThan(parts[j].name, parts[i].name)
                                     \/ parts[j].name = parts[i].name /\ j < i})
           sorted == [k \in 1..Len(parts) |->
                        parts[CHOOSE i \in 1..Len(parts) : rank(i) = k - 1]]
       IN [threw |-> FALSE,
           s |-> Join([k \in 1..Len(parts) |->
                         sorted[k].name \o <<CH_EQ>> \o sorted[k].value],
                      <<38>>)]

\* key: [def, s]; result: [threw, s]
encodeKey(key) ==
  IF ~Truthy(key) THEN [threw |-> FALSE, s |-> <<>>]
  ELSE LET segments == Split(key.s, CH_SLASH)
       IN IF \E i \in 1..Len(segments) : encodeRfc3986(segments[i]).threw
          THEN [threw |-> TRUE, s |-> <<>>]
          ELSE [threw |-> FALSE,
                s |-> Join([i \in 1..Len(segments) |->
                              encodeRfc3986(segments[i]).s],
                           <<CH_SLASH>>)]

\* Date.prototype.toISOString of the instant [y, mo, d, h, mi, s, ms]
toISOString(date) ==
  Digits(date.y, 4) \o <<CH_MINUS>> \o Digits(date.mo, 2) \o <<CH_MINUS>>
    \o Digits(date.d, 2) \o <<84>> \o Digits(date.h, 2) \o <<CH_COLON>>
    \o Digits(date.mi, 2) \o <<CH_COLON>> \o Digits(date.s, 2) \o <<CH_DOT>>
    \o Digits(date.ms, 3) \o <<90>>

\* formatAmzDate that keeps the milliseconds
formatAmzDateMillis(date) ==
  SelectSeq(toISOString(date), LAMBDA c : c # CH_MINUS /\ c # CH_COLON)

\* toISOString().replace(/[-:]/g, '').replace(/\.\d{3}Z$/, 'Z')
formatAmzDate(date) ==
  LET plain == SelectSeq(toISOString(date),
                         LAMBDA c : c # CH_MINUS /\ c # CH_COLON)
      n == Len(plain)
  IN IF n >= 5 /\ plain[n - 4] = CH_DOT /\ IsDigit(plain[n - 3])
        /\ IsDigit(plain[n - 2]) /\ IsDigit(plain[n - 1]) /\ plain[n] = 90
     THEN SubSeq(plain, 1, n - 5) \o <<90>>
     ELSE plain

(***************************************************************************)
(* r2.ts: URL, the WHATWG URL object signedFetch builds the request with.  *)
(* A URL is [ok, scheme, hostname, port, pathname, search]; ok is FALSE    *)
(* where new URL throws a TypeError.                                       *)
(***************************************************************************)
\* the pathname a URL takes for the given text: the segments between the
\* slashes, with '.' segments dropped and '..' segments removing the segment
\* before them, and the characters no path may hold percent-encoded
RECURSIVE PathSegments(_, _, _)
PathSegments(segments, i, path) ==
  LET seg == ToLowerCase(segments[i])
      isLast == i = Len(segments)
      single == seg \in {<<46>>, <<37, 50, 101>>}
      double == seg \in {<<46, 46>>, <<46, 37, 50, 101>>, <<37, 50, 101, 46>>, <<37, 50, 101, 37, 50, 101>>}
      encoded == Flatten([k \in 1..Len(segments[i]) |->
                            IF segments[i][k] <= 32 \/ segments[i][k] > 126
                               \/ segments[i][k] \in {34, 35, 60, 62, 63, 96, 123, 125}
                            THEN <<37, HexDigit(segments[i][k] \div 16),
                                   HexDigit(segments[i][k] % 16)>>
                            ELSE <<segments[i][k]>>],
                         1, Len(segments[i]))
      next == IF double
              THEN (IF path = <<>> THEN path ELSE SubSeq(path, 1, Len(path) - 1))
                     \o (IF isLast THEN <<(<<>>)>> ELSE <<>>)
              ELSE IF single THEN path \o (IF isLast THEN <<(<<>>)>> ELSE <<>>)
              ELSE Append(path, encoded)
  IN IF i > Len(segments) THEN path
     ELSE IF isLast THEN next
     ELSE PathSegments(segments, i + 1, next)

\* url.pathname = value
SetPathname(value) ==
  LET text == IF Len(value) > 0 /\ value[1] = CH_SLASH
              THEN SubSeq(value, 2, Len(value)) ELSE value
  IN <<CH_SLASH>> \o Join(PathSegments(Split(text, CH_SLASH), 1, <<>>), <<CH_SLASH>>)

\* new URL(text) for a text of the shape scheme://host[:port][/path]
ParseUrl(text) ==
  LET colon == {i \in 1..Len(text) : text[i] = CH_COLON}
      c == IF colon = {} THEN 0 ELSE CHOOSE i \in colon : \A j \in colon : i <= j
      scheme == ToLowerCase(SubSeq(text, 1, c - 1))
      rest == SubSeq(text, c + 3, Len(text))
      slash == {i \in 1..Len(rest) : rest[i] = CH_SLASH}
      s == IF slash = {} THEN Len(rest) + 1
           ELSE CHOOSE i \in slash : \A j \in slash : i <= j
      authority == ToLowerCase(SubSeq(rest, 1, s - 1))
      hostPort == Split(authority, CH_COLON)
      port == IF Len(hostPort) > 1 THEN hostPort[2] ELSE <<>>
      defaultPort == IF scheme = <<104, 116, 116, 112, 115>> THEN <<52, 52, 51>> ELSE <<56, 48>>
  IN IF c < 2 \/ Len(text) < c + 2 \/ text[c + 1] # CH_SLASH
        \/ text[c + 2] # CH_SLASH \/ scheme \notin {<<104, 116, 116, 112, 115>>, <<104, 116, 116, 112>>}
        \/ hostPort[1] = <<>> \/ Len(hostPort) > 2
        \/ \E i \in 1..Len(port) : ~IsDigit(port[i])
     THEN [ok |-> FALSE, scheme |-> <<>>, hostname |-> <<>>, port |-> <<>>,
           pathname |-> <<>>, search |-> <<>>]
     ELSE [ok |-> TRUE, scheme |-> scheme, hostname |-> hostPort[1],
           port |-> IF port = defaultPort THEN <<>> ELSE port,
           pathname |-> SetPathname(SubSeq(rest, s, Len(rest))),
           search |-> <<>>]

\* url.host
UrlHost(url) ==
  url.hostname \o (IF url.port = <<>> THEN <<>> ELSE <<CH_COLON>> \o url.port)

\* url.toString()
UrlToString(url) ==
  url.scheme \o <<58, 47, 47>> \o UrlHost(url) \o url.pathname
    \o (IF url.search = <<>> THEN <<>> ELSE <<63>> \o url.search)

\* url.hostname = value: a value holding a character no host may hold
\* leaves the URL as it was
SetHostname(url, value) ==
  IF value = <<>>
     \/ \E i \in 1..Len(value) :
          value[i] <= 32 \/ value[i] > 126
            \/ value[i] \in {35, 37, 47, 58, 60, 62, 63, 64, 91, 92, 93, 94, 124}
  THEN url
  ELSE [url EXCEPT !.hostname = ToLowerCase(value)]

(***************************************************************************)
(* r2.ts: signedFetch.                                                     *)
(***************************************************************************)
\* options of signedFetch: key and body are [def, s], query and headers are
\* [def, entries] with the entries in insertion order
NoEntries == [def |-> FALSE, entries |-> <<>>]

Entries(entries) == [def |-> TRUE, entries |-> entries]

\* one entry of a Record<string, string>, as yet without name and value
NoEntry == [name |-> <<>>, value |-> <<>>]

\* options with nothing in them
NoOptions ==
  [method |-> <<>>, key |-> Undefined, query |-> NoEntries,
   body |-> Undefined, headers |-> NoEntries]

\* The options and entries that the exported operations build are values
\* of action parameters, which TLC computes once and shares among its
\* workers; they are written as updates of a constant record, which TLC
\* holds in normal form, so that no worker reorders the fields of a record
\* another worker is reading.
Entry(name, value) == [NoEntry EXCEPT !.name = name, !.value = value]

RequestOptions(method, key, query, body, headers) ==
  [NoOptions EXCEPT !.method = method, !.key = key, !.query = query,
                    !.body = body, !.headers = headers]

\* lines 165-180: the URL of the request and what is signed of it;
\* error is "url" for the TypeError of new URL, "uri" for a URIError
AddressRequest(config, options) ==
  LET endpoint == ParseUrl(normaliseEndpoint(config.endpoint))
      encodedKey == encodeKey(options.key)
      bucket == encodeRfc3986(config.bucket)
      canonicalQuery == buildCanonicalQuery(options.query)
      canonicalUri ==
        IF config.forcePathStyle
        THEN <<CH_SLASH>> \o bucket.s
               \o (IF encodedKey.s # <<>> THEN <<CH_SLASH>> \o encodedKey.s ELSE <<>>)
        ELSE IF encodedKey.s # <<>> THEN <<CH_SLASH>> \o encodedKey.s
        ELSE <<CH_SLASH>>
      addressed ==
        IF config.forcePathStyle THEN endpoint
        ELSE SetHostname(endpoint, config.bucket \o <<CH_DOT>> \o endpoint.hostname)
      failed(error) ==
        [error |-> error, url |-> endpoint, canonicalUri |-> <<>>,
         canonicalQuery |-> <<>>]
  IN IF ~endpoint.ok THEN failed("url")
     ELSE IF encodedKey.threw THEN failed("uri")
     ELSE IF config.forcePathStyle /\ bucket.threw THEN failed("uri")
     ELSE IF canonicalQuery.threw THEN failed("uri")
     ELSE [error |-> "none",
           url |-> [addressed EXCEPT !.pathname = SetPathname(canonicalUri),
                                     !.search = canonicalQuery.s],
           canonicalUri |-> canonicalUri,
           canonicalQuery |-> canonicalQuery.s]

\* value.toString().trim().replace(/\s+/g, ' ')
HeaderValue(value) ==
  LET space(i) == value[i] \in {9, 10, 11, 12, 13, 32}
  IN Flatten([i \in 1..Len(value) |->
                IF ~space(i) THEN <<value[i]>>
                ELSE IF i > 1 /\ ~space(i - 1)
                        /\ \E j \in (i + 1)..Len(value) : ~space(j)
                THEN <<32>>
                ELSE <<>>],
             1, Len(value))

\* lines 204-215: the record canonicalHeaders after the caller's headers
\* have been assigned into it, as [name, value] in the order of the sorted
\* names; a later assignment to a name replaces the earlier one
CanonicalHeaders(host, payloadHash, amzDate, additionalHeaders) ==
  LET assigned ==
        <<[name |-> <<104, 111, 115, 116>>, value |-> host],
          [name |-> <<120, 45, 97, 109, 122, 45, 99, 111, 110, 116, 101, 110, 116, 45, 115, 104, 97, 50, 53, 54>>, value |-> payloadHash],
          [name |-> <<120, 45, 97, 109, 122, 45, 100, 97, 116, 101>>, value |-> amzDate]>>
        \o [i \in 1..Len(additionalHeaders.entries) |->
              [name |-> ToLowerCase(additionalHeaders.entries[i].name),
               value |-> additionalHeaders.entries[i].value]]
      names == {assigned[i].name : i \in 1..Len(assigned)}
      final(name) ==
        assigned[CHOOSE i \in 1..Len(assigned) :
                   /\ assigned[i].name = name
                   /\ \A j \in 1..Len(assigned) : assigned[j].name = name => j <= i]
      nth(k) == CHOOSE n \in names :
                  Cardinality({m \in names : LessThan(m, n)}) = k - 1
  IN [k \in 1..Cardinality(names) |-> final(nth(k))]

\* lines 241-249: the headers handed to fetch, names as the caller wrote them
RequestHeaders(payloadHash, amzDate, authorization, additionalHeaders) ==
  LET assigned ==
        <<[name |-> <<120, 45, 97, 109, 122, 45, 99, 111, 110, 116, 101, 110, 116, 45, 115, 104, 97, 50, 53, 54>>, value |-> payloadHash],
          [name |-> <<120, 45, 97, 109, 122, 45, 100, 97, 116, 101>>, value |-> amzDate],
          [name |-> <<65, 117, 116, 104, 111, 114, 105, 122, 97, 116, 105, 111, 110>>, value |-> authorization]>>
        \o additionalHeaders.entries
  IN {assigned[i] : i \in {i \in 1..Len(assigned) :
                             \A j \in 1..Len(assigned) :
                               assigned[j].name = assigned[i].name => j <= i}}

\* lines 201-239: the signature of the request
SignRequest(config, method, canonicalUri, canonicalQuery, headers, payloadHash, amzDate) ==
  LET dateStamp == Slice(amzDate, 0, 8)
      credentialScope == dateStamp \o <<47, 97, 117, 116, 111, 47, 115, 51, 47, 97, 119, 115, 52, 95, 114, 101, 113, 117, 101, 115, 116>>
      canonicalHeadersString ==
        Join([k \in 1..Len(headers) |->
                headers[k].name \o <<CH_COLON>> \o HeaderValue(headers[k].value)],
             <<10>>) \o <<10>>
      signedHeaders == Join([k \in 1..Len(headers) |-> headers[k].name], <<59>>)
      canonicalRequest ==
        Join(<<method, canonicalUri, canonicalQuery, canonicalHeadersString,
               signedHeaders, payloadHash>>, <<10>>)
      stringToSign ==
        Join(<<<<65, 87, 83, 52, 45, 72, 77, 65, 67, 45, 83, 72, 65, 50, 53, 54>>, amzDate, credentialScope,
               hashSha256(Utf8Encode(canonicalRequest))>>, <<10>>)
      signature ==
        Hex(HmacSha256(createSigningKey(config.secretAccessKey, dateStamp),
                       Utf8Encode(stringToSign)))
  IN [dateStamp |-> dateStamp,
      signedHeaders |-> signedHeaders,
      stringToSign |-> stringToSign,
      signature |-> signature,
      authorization |->
        <<65, 87, 83, 52, 45, 72, 77, 65, 67, 45, 83, 72, 65, 50, 53, 54, 32, 67, 114, 101, 100, 101, 110, 116, 105, 97, 108, 61>> \o config.accessKeyId \o <<CH_SLASH>>
          \o credentialScope \o <<44, 32, 83, 105, 103, 110, 101, 100, 72, 101, 97, 100, 101, 114, 115, 61>> \o signedHeaders
          \o <<44, 32, 83, 105, 103, 110, 97, 116, 117, 114, 101, 61>> \o signature]

\* String(n) and n.toString() of a natural number
NumberToString(n) ==
  Digits(n, CHOOSE w \in 1..10 :
              (w = 10 \/ n < 10 ^ w) /\ (w = 1 \/ n >= 10 ^ (w - 1)))

\* the options the exported operations hand to signedFetch (lines 274-310)
listR2Diagnostics(prefix, maxKeys) ==
  RequestOptions(<<71, 69, 84>>, Undefined,
                 Entries(<<Entry(<<108, 105, 115, 116, 45, 116, 121, 112, 101>>, <<50>>),
                           Entry(<<112, 114, 101, 102, 105, 120>>, prefix),
                           Entry(<<109, 97, 120, 45, 107, 101, 121, 115>>, NumberToString(maxKeys))>>),
                 Undefined, NoEntries)

putR2Object(key, body, contentType) ==
  RequestOptions(<<80, 85, 84>>, Some(key), NoEntries, Some(body),
                 Entries(<<Entry(<<67, 111, 110, 116, 101, 110, 116, 45, 84, 121, 112, 101>>, contentType),
                           Entry(<<67, 111, 110, 116, 101, 110, 116, 45, 76, 101, 110, 103, 116, 104>>,
                                 NumberToString(Len(Utf8Encode(body))))>>))

getR2ObjectBody(key) ==
  RequestOptions(<<71, 69, 84>>, Some(key), NoEntries, Undefined, NoEntries)

deleteR2Object(key) ==
  RequestOptions(<<68, 69, 76, 69, 84, 69>>, Some(key), NoEntries, Undefined, NoEntries)

\* the instants new Date() gives, as [y, mo, d, h, mi, s, ms] in UTC: two in
\* one second, one a second later, one a day later
Instants ==
  <<[y |-> 2024, mo |-> 1, d |-> 5, h |-> 9, mi |-> 3, s |-> 7, ms |-> 45],
    [y |-> 2024, mo |-> 1, d |-> 5, h |-> 9, mi |-> 3, s |-> 7, ms |-> 900],
    [y |-> 2024, mo |-> 1, d |-> 5, h |-> 9, mi |-> 3, s |-> 8, ms |-> 45],
    [y |-> 2024, mo |-> 1, d |-> 6, h |-> 9, mi |-> 3, s |-> 7, ms |-> 45]>>

\* new Date() that gives the instant of the call before, where there is one
NowRemembered ==
  IF prev.op # "none" /\ prev.sent THEN Instants[prev.now] ELSE Instants[clock]

\* new Date() (line 199)
Now == Instants[clock]

\* what fetch and response.text() give: fetch rejects, or resolves to a
\* response with a status whose body is text.s, text.def being FALSE where
\* reading the body fails
NoResponse == [rejected |-> FALSE, status |-> 0, text |-> Undefined]

\* the length of a response body longer than the prefix an error keeps
LongBody == 203

Responses ==
  {[rejected |-> TRUE, status |-> 0, text |-> Undefined],
   [rejected |-> FALSE, status |-> 200, text |-> Some(<<60, 111, 107, 47, 62>>)],
   [rejected |-> FALSE, status |-> 403, text |-> Some(<<68, 101, 110, 105, 101, 100>>)],
   [rejected |-> FALSE, status |-> 500, text |-> Some(<<>>)],
   [rejected |-> FALSE, status |-> 404, text |-> Undefined],
   [rejected |-> FALSE, status |-> 502, text |-> Some(Repeat(120, LongBody))]}

\* lines 257-269: the error a response makes signedFetch throw, "none" for
\* a response that is ok
ResponseError(response) ==
  IF response.rejected THEN [error |-> "network", message |-> <<>>]
  ELSE IF response.status >= 200 /\ response.status <= 299
  THEN [error |-> "none", message |-> <<>>]
  ELSE [error |-> "status",
        message |-> IF Truthy(response.text)
                    THEN SubSeq(response.text.s, 1,
                                IF Len(response.text.s) < 200
                                THEN Len(response.text.s) ELSE 200)
                    ELSE <<72, 84, 84, 80, 32>> \o NumberToString(response.status)]

\* lines 182-249: what signedFetch computes for the request at the instant
SignedRequest(config, options, addressed, instant) ==
  LET bodyBuffer == IF Truthy(options.body) THEN Utf8Encode(options.body.s) ELSE <<>>
      payloadHash == hashSha256(bodyBuffer)
      amzDate == formatAmzDate(instant)
      method == [i \in 1..Len(options.method) |->
                   IF options.method[i] >= 97 /\ options.method[i] <= 122
                   THEN options.method[i] - 32 ELSE options.method[i]]
      canonicalHeaders ==
        CanonicalHeaders(UrlHost(addressed.url), payloadHash, amzDate, options.headers)
      signed == SignRequest(config, method, addressed.canonicalUri,
                            addressed.canonicalQuery, canonicalHeaders,
                            payloadHash, amzDate)
  IN [method |-> method, url |-> UrlToString(addressed.url),
      host |-> UrlHost(addressed.url), pathname |-> addressed.url.pathname,
      body |-> IF Len(bodyBuffer) > 0 THEN Some(bodyBuffer) ELSE Undefined,
      payloadHash |-> payloadHash, amzDate |-> amzDate,
      canonicalUri |-> addressed.canonicalUri,
      canonicalQuery |-> addressed.canonicalQuery,
      canonicalHeaders |-> canonicalHeaders,
      dateStamp |-> signed.dateStamp, signedHeaders |-> signed.signedHeaders,
      stringToSign |-> signed.stringToSign, signature |-> signed.signature,
      authorization |-> signed.authorization,
      requestHeaders |-> RequestHeaders(payloadHash, amzDate, signed.authorization,
                                        options.headers)]

\* fetch retried once after a response that is not ok or a rejection
FetchesRetried(response) ==
  IF response.rejected \/ response.status < 200 \/ response.status > 299
  THEN 2 ELSE 1

\* lines 251-255: the number of times signedFetch calls fetch for a request
\* that gets the response
Fetches(response) == 1

\* the request of a call that has not come to build one
NoRequest ==
  [method |-> <<>>, url |-> <<>>, host |-> <<>>, pathname |-> <<>>,
   body |-> Undefined, payloadHash |-> <<>>, amzDate |-> <<>>,
   canonicalUri |-> <<>>, canonicalQuery |-> <<>>, canonicalHeaders |-> <<>>,
   dateStamp |-> <<>>, signedHeaders |-> <<>>, stringToSign |-> <<>>,
   signature |-> <<>>, authorization |-> <<>>, requestHeaders |-> {}]

\* a complete environment: account 'acc', bucket 'bkt', keys 'AK' and 'sk'
StorageEnv(endpoint, forcePathStyle) ==
  [accountId |-> Some(<<97, 99, 99>>), bucket |-> Some(<<98, 107, 116>>),
   endpoint |-> Some(endpoint), accessKeyId |-> Some(<<65, 75>>),
   secretAccessKey |-> Some(<<115, 107>>), forcePathStyle |-> forcePathStyle]

\* environments with all five required values; the last has the endpoint
\* 'r2.io', which is no URL
CompleteEnvs ==
  {StorageEnv(<<104, 116, 116, 112, 115, 58, 47, 47, 114, 50, 46, 105, 111>>, Undefined),
   StorageEnv(<<104, 116, 116, 112, 115, 58, 47, 47, 114, 50, 46, 105, 111>>, Some(<<84, 82, 85, 69>>)),
   StorageEnv(<<104, 116, 116, 112, 115, 58, 47, 47, 82, 50, 46, 105, 111, 58, 56, 52, 52, 51, 47>>, Some(<<116, 114, 117, 101>>)),
   StorageEnv(<<104, 116, 116, 112, 115, 58, 47, 47, 114, 50, 46, 105, 111, 47>>, Some(<<49>>)),
   StorageEnv(<<114, 50, 46, 105, 111>>, Undefined)}

\* environments with a required value absent or empty
IncompleteEnvs ==
  {[StorageEnv(<<104, 116, 116, 112, 115, 58, 47, 47, 114, 50, 46, 105, 111>>, Some(<<116, 114, 117, 101>>)) EXCEPT ![f] = v] :
     f \in {"accountId", "bucket", "endpoint", "accessKeyId", "secretAccessKey"},
     v \in {Undefined, Some(<<>>)}}
  \cup {NoStorageEnv}

\* the call record of a storage operation, before anything has happened
StorageCall(op) ==
  [op |-> op, failedBefore |-> configFailed, threw |-> FALSE, error |-> "none",
   config |-> NullConfig, readEnv |-> FALSE, bucket |-> <<>>,
   options |-> NoOptions, now |-> 0, sent |-> FALSE, request |-> NoRequest,
   response |-> NoResponse, message |-> <<>>, fetches |-> 0]

StorageIdle == call.op = "none"

\* getR2Bucket(): ensureConfig().bucket
GetR2Bucket ==
  /\ StorageIdle
  /\ \E r \in {ensureConfig} :
        /\ cachedConfig' = r.cache
        /\ configFailed' = (configFailed \/ r.threw)
        /\ call' = [StorageCall("getR2Bucket") EXCEPT
                      !.threw = r.threw,
                      !.error = IF r.threw THEN "config" ELSE "none",
                      !.config = r.config, !.readEnv = r.readEnv,
                      !.bucket = r.config.bucket]
  /\ UNCHANGED <<storageEnv, clock, prev>>
  /\ UNCHANGED handlerVars
  /\ UNCHANGED <<hasProcess, processEnv, buildEnv, prod, last, firstSecret>>
  /\ UNCHANGED browserVars

\* the caller has taken the outcome of the storage call
StorageReturn ==
  /\ ~StorageIdle
  /\ call' = NoStorageCall
  /\ UNCHANGED <<storageEnv, cachedConfig, configFailed, clock, prev>>
  /\ UNCHANGED handlerVars
  /\ UNCHANGED <<hasProcess, processEnv, buildEnv, prod, last, firstSecret>>
  /\ UNCHANGED browserVars

InitStorage ==
  /\ hasProcess = FALSE
  /\ processEnv = Undefined
  /\ buildEnv = Undefined
  /\ prod = FALSE
  /\ last = Call("none")
  /\ firstSecret = NotResolved
  /\ jar = NoJar
  /\ \E env \in CompleteEnvs \cup IncompleteEnvs : StorageLoaded(env)

\* keys, prefixes and bodies the callers pass; 55357 is a lone surrogate
Keys == {<<97, 46, 106, 115, 111, 110>>, <<100, 105, 114, 47, 97, 32, 98>>, <<97, 47, 46, 46, 47, 98>>, <<>>, <<55357>>}

Prefixes == {<<100, 105, 97, 103, 47>>, <<>>}

Bodies == {<<123, 125>>, <<>>}

\* requests of signedFetch other than those the exported operations make:
\* the query of listR2Diagnostics inserted in another order, and headers
\* of every kind of name
CustomRequests ==
  {RequestOptions(<<71, 69, 84>>, Undefined,
                  Entries(<<[name |-> <<112, 114, 101, 102, 105, 120>>, value |-> <<100, 105, 97, 103, 47>>],
                            [name |-> <<109, 97, 120, 45, 107, 101, 121, 115>>, value |-> <<49>>],
                            [name |-> <<108, 105, 115, 116, 45, 116, 121, 112, 101>>, value |-> <<50>>]>>),
                  Undefined, NoEntries),
   RequestOptions(<<71, 69, 84>>, Undefined, Entries(<<>>), Undefined, NoEntries)}
  \cup {RequestOptions(<<80, 85, 84>>, Some(<<97, 46, 106, 115, 111, 110>>), NoEntries, Some(<<123, 125>>),
                       Entries(<<h>>)) :
          h \in {[name |-> <<72, 111, 115, 116>>, value |-> <<101, 118, 105, 108, 46, 105, 111>>],
                 [name |-> <<88, 45, 65, 109, 122, 45, 68, 97, 116, 101>>, value |-> <<50, 48, 48, 48, 48, 49, 48, 49, 84, 48, 48, 48, 48, 48, 48, 90>>],
                 [name |-> <<120, 45, 97, 109, 122, 45, 99, 111, 110, 116, 101, 110, 116, 45, 115, 104, 97, 50, 53, 54>>, value |-> <<85, 78, 83, 73, 71, 78, 69, 68, 45, 80, 65, 89, 76, 79, 65, 68>>],
                 [name |-> <<88, 45, 84, 97, 103>>, value |-> <<32, 97, 32, 32, 98, 32>>]}}

\* signedFetch(options), called by caller
SignedFetch(caller, options) ==
  /\ StorageIdle
  /\ \E cfg \in {ensureConfig} :
     \E addressed \in {IF cfg.threw THEN [error |-> "config"]
                       ELSE AddressRequest(cfg.config, options)} :
     \E request \in {IF addressed.error # "none" THEN NoRequest
                     ELSE SignedRequest(cfg.config, options, addressed, Now)} :
     \E response \in (IF addressed.error # "none" THEN {NoResponse} ELSE Responses) :
     \E outcome \in {IF addressed.error # "none"
                     THEN [error |-> addressed.error, message |-> <<>>]
                     ELSE ResponseError(response)} :
        /\ cachedConfig' = cfg.cache
        /\ configFailed' = (configFailed \/ cfg.threw)
        /\ call' = [StorageCall(caller) EXCEPT
                      !.threw = outcome.error # "none",
                      !.error = outcome.error,
                      !.config = cfg.config, !.readEnv = cfg.readEnv,
                      !.options = options, !.now = clock,
                      !.sent = (addressed.error = "none"),
                      !.request = request, !.response = response,
                      !.message = outcome.message,
                      !.fetches = IF addressed.error # "none" THEN 0
                                  ELSE Fetches(response)]
  /\ UNCHANGED <<storageEnv, clock, prev>>
  /\ UNCHANGED handlerVars
  /\ UNCHANGED <<hasProcess, processEnv, buildEnv, prod, last, firstSecret>>
  /\ UNCHANGED browserVars

ListR2Diagnostics(prefix, maxKeys) ==
  SignedFetch("listR2Diagnostics", listR2Diagnostics(prefix, maxKeys))

PutR2Object(key, body, contentType) ==
  SignedFetch("putR2Object", putR2Object(key, body, contentType))

GetR2ObjectBody(key) == SignedFetch("getR2ObjectBody", getR2ObjectBody(key))

DeleteR2Object(key) == SignedFetch("deleteR2Object", deleteR2Object(key))

\* time passes
Tick ==
  /\ StorageIdle
  /\ clock < Len(Instants)
  /\ clock' = clock + 1
  /\ UNCHANGED <<storageEnv, cachedConfig, configFailed, call, prev>>
  /\ UNCHANGED handlerVars
  /\ UNCHANGED <<hasProcess, processEnv, buildEnv, prod, last, firstSecret>>
  /\ UNCHANGED browserVars

NextStorage ==
  \/ GetR2Bucket
  \/ \E prefix \in Prefixes, maxKeys \in {1, 25} : ListR2Diagnostics(prefix, maxKeys)
  \/ \E key \in Keys, body \in Bodies :
       PutR2Object(key, body, <<97, 112, 112, 108, 105, 99, 97, 116, 105, 111, 110, 47, 106, 115, 111, 110>>)
  \/ \E key \in Keys : GetR2ObjectBody(key)
  \/ \E key \in Keys : DeleteR2Object(key)
  \/ \E options \in CustomRequests : SignedFetch("signedFetch", options)
  \/ Tick
  \/ StorageReturn

SpecStorage == InitStorage /\ [][NextStorage]_vars

\* the caller has taken the outcome of the storage call, which prev keeps
\* for the comparison with the call that comes next
Remember ==
  /\ ~StorageIdle
  /\ prev' = call
  /\ call' = NoStorageCall
  /\ UNCHANGED <<storageEnv, cachedConfig, configFailed, clock>>
  /\ UNCHANGED handlerVars
  /\ UNCHANGED <<hasProcess, processEnv, buildEnv, prod, last, firstSecret>>
  /\ UNCHANGED browserVars

\* the storage operations on one object, with the call before remembered
InitSigning ==
  /\ hasProcess = FALSE
  /\ processEnv = Undefined
  /\ buildEnv = Undefined
  /\ prod = FALSE
  /\ last = Call("none")
  /\ firstSecret = NotResolved
  /\ jar = NoJar
  /\ \E forcePathStyle \in {Undefined, Some(<<116, 114, 117, 101>>)} :
       StorageLoaded(StorageEnv(<<104, 116, 116, 112, 115, 58, 47, 47, 114, 50, 46, 105, 111>>, forcePathStyle))

NextSigning ==
  \/ ListR2Diagnostics(<<100, 105, 97, 103, 47>>, 1)
  \/ PutR2Object(<<97, 46, 106, 115, 111, 110>>, <<123, 125>>, <<97, 112, 112, 108, 105, 99, 97, 116, 105, 111, 110, 47, 106, 115, 111, 110>>)
  \/ GetR2ObjectBody(<<97, 46, 106, 115, 111, 110>>)
  \/ DeleteR2Object(<<97, 46, 106, 115, 111, 110>>)
  \/ Tick
  \/ Remember

SpecSigning == InitSigning /\ [][NextSigning]_vars

(***************************************************************************)
(* test-r2.ts: the diagnostic GET handler.                                 *)
(***************************************************************************)
\* Date.now() of the instant as decimal digits: the milliseconds since
\* 1970-01-01T00:00:00Z
DateNow(date) ==
  LET y == IF date.mo <= 2 THEN date.y - 1 ELSE date.y
      era == y \div 400
      yoe == y - era * 400
      doy == (153 * (IF date.mo > 2 THEN date.mo - 3 ELSE date.mo + 9) + 2) \div 5
               + date.d - 1
      days == era * 146097 + yoe * 365 + yoe \div 4 - yoe \div 100 + doy - 719468
  IN NumberToString(days * 86400 + date.h * 3600 + date.mi * 60 + date.s)
       \o Digits(date.ms, 3)

\* `diag/ping-${timestamp}.json` with the ':' and '.' of the timestamp
\* replaced by '-', or with Date.now() where that key is too long
createDiagKey(date) ==
  LET timestamp == [i \in 1..Len(toISOString(date)) |->
                      IF toISOString(date)[i] \in {CH_COLON, CH_DOT}
                      THEN CH_MINUS ELSE toISOString(date)[i]]
      key == <<100, 105, 97, 103, 47, 112, 105, 110, 103, 45>> \o timestamp \o <<46, 106, 115, 111, 110>>
  IN IF Len(key) > MAX_KEY_LENGTH
     THEN <<100, 105, 97, 103, 47, 112, 105, 110, 103, 45>> \o DateNow(date) \o <<46, 106, 115, 111, 110>>
     ELSE key

\* the names of the steps in the order the handler awaits them
StepNames == <<"list", "put", "get", "del">>

\* Math.round of an elapsed time given in tenths of a millisecond
MathRound(tenths) == (tenths + 5) \div 10

\* the error the operation of step k throws, Undefined where it throws
\* none; remote is what the storage does: [list, put, get, del, cleanup]
\* tell whether client.send succeeds, body is the Body of the object got
StepError(k, remote) ==
  IF k = 3
  THEN IF ~remote.get THEN Some(<<65, 99, 99, 101, 115, 115, 68, 101, 110, 105, 101, 100>>)
       ELSE IF ~Truthy(remote.body) THEN Some(<<69, 109, 112, 116, 121, 32, 114, 101, 115, 112, 111, 110, 115, 101, 32, 98, 111, 100, 121>>)
       ELSE IF JsonParse(remote.body.s).threw THEN Some(<<85, 110, 101, 120, 112, 101, 99, 116, 101, 100, 32, 116, 111, 107, 101, 110>>)
       ELSE Undefined
  ELSE IF remote[StepNames[k]] THEN Undefined ELSE Some(<<65, 99, 99, 101, 115, 115, 68, 101, 110, 105, 101, 100>>)

\* the errors of the four operations, had each of them been run
StepErrors(remote) == [k \in 1..Len(StepNames) |-> StepError(k, remote)]

\* runStep that no failure of the operation makes throw
StepsRunAll(errors) == Len(StepNames)

\* the number of steps the handler runs: a step that fails makes runStep
\* throw (line 83), which leaves the try block
StepsRun(errors) ==
  IF \E k \in 1..Len(StepNames) : errors[k].def
  THEN CHOOSE k \in 1..Len(StepNames) :
         /\ errors[k].def
         /\ \A j \in 1..(k - 1) : ~errors[j].def
  ELSE Len(StepNames)

\* the entry runStep pushes for step k (lines 76-82)
runStep(k, error, elapsed) ==
  [name |-> StepNames[k], ok |-> ~error.def, ms |-> MathRound(elapsed),
   error |-> error]

\* steps.reduce((sum, step) => sum + step.ms, 0)
RECURSIVE TotalMs(_, _)
TotalMs(steps, n) == IF n = 0 THEN 0 ELSE TotalMs(steps, n - 1) + steps[n].ms

\* the cleanup delete attempted after every failure
CleanupAlways(failed, objectCreated) == failed

\* lines 152-153: the cleanup delete is attempted
CleanupAttempted(failed, objectCreated) == failed /\ objectCreated

\* the commands the handler sends, in order
Commands(run, cleanup, key) ==
  [k \in 1..run |-> [command |-> StepNames[k],
                     key |-> IF k = 1 THEN <<>> ELSE key]]
    \o (IF cleanup THEN <<[command |-> "del", key |-> key]>> ELSE <<>>)

\* the outcome of a handler that an exception has left (lines 66-67)
Escaped ==
  [op |-> "GET", escaped |-> TRUE, status |-> 0, ok |-> FALSE, steps |-> <<>>,
   totalMs |-> 0, error |-> Undefined, failedStep |-> "none",
   timestamp |-> <<>>, key |-> <<>>, objectCreated |-> FALSE,
   commands |-> <<>>, cleanup |-> "none"]

\* lines 68-168: the response of the handler once client and bucket are there
Respond(errors, remote, date) ==
  LET run == StepsRun(errors)
      steps == [k \in 1..run |-> runStep(k, errors[k], remote.elapsed[k])]
      failed == errors[run].def
      objectCreated == run >= 2 /\ ~errors[2].def
      cleanup == CleanupAttempted(failed, objectCreated)
  IN [op |-> "GET", escaped |-> FALSE,
      status |-> IF failed THEN 500 ELSE 200,
      ok |-> ~failed,
      steps |-> steps,
      totalMs |-> IF failed THEN 0 ELSE TotalMs(steps, Len(steps)),
      error |-> errors[run],
      failedStep |-> IF failed THEN StepNames[run] ELSE "none",
      timestamp |-> toISOString(date),
      key |-> createDiagKey(date),
      objectCreated |-> objectCreated,
      commands |-> Commands(run, cleanup, createDiagKey(date)),
      cleanup |-> IF ~cleanup THEN "none"
                  ELSE IF remote.cleanup THEN "ok" ELSE "failed"]

\* what the storage may do during one request
Remotes ==
  [list : BOOLEAN, put : BOOLEAN, get : BOOLEAN, del : BOOLEAN,
   cleanup : BOOLEAN,
   body : {Undefined, Some(<<123, 125>>), Some(<<60, 104, 116, 109, 108, 62>>)},
   elapsed : {<<4, 26, 5, 14>>, <<30, 4, 4, 16>>}]

DiagIdle == diag.op = "none"

\* GET /api/test-r2
GET(remote) ==
  /\ DiagIdle
  /\ StorageIdle
  /\ \E cfg \in {ensureConfig} :
     \E errors \in {StepErrors(remote)} :
        /\ cachedConfig' = cfg.cache
        /\ configFailed' = (configFailed \/ cfg.threw)
        /\ client' = IF client.set \/ cfg.threw THEN client
                     ELSE [set |-> TRUE, config |-> cfg.config]
        /\ diag' = IF cfg.threw THEN Escaped ELSE Respond(errors, remote, Now)
  /\ UNCHANGED <<storageEnv, clock, call, prev, racers>>
  /\ UNCHANGED <<hasProcess, processEnv, buildEnv, prod, last, firstSecret>>
  /\ UNCHANGED browserVars

\* the response has gone to the requester
DiagReturn ==
  /\ ~DiagIdle
  /\ diag' = NoDiag
  /\ UNCHANGED <<storageEnv, cachedConfig, configFailed, clock, call, prev>>
  /\ UNCHANGED <<client, racers>>
  /\ UNCHANGED <<hasProcess, processEnv, buildEnv, prod, last, firstSecret>>
  /\ UNCHANGED browserVars

NextDiag ==
  \/ \E remote \in Remotes : GET(remote)
  \/ DiagReturn
  \/ Tick

SpecDiag == InitStorage /\ [][NextDiag]_vars

(***************************************************************************)
(* r2.ts: ensureConfig statement by statement.  The program runs the three *)
(* statements of one call in one turn of the event loop; here other        *)
(* callers may run between them, so that every schedule of the program is  *)
(* a behaviour and so are the races in which several callers have found    *)
(* the cache empty before any of them fills it.                            *)
(***************************************************************************)
\* a cache assignment that leaves the secret key out
CacheAssignedPartly(config) == [config EXCEPT !.secretAccessKey = <<>>]

\* lines 106-113: the value assigned to cachedConfig
CacheAssigned(config) == config

\* lines 91-93: if (cachedConfig) return cachedConfig
RacerCheck(i) ==
  /\ racers[i].pc = "start"
  /\ racers' = [racers EXCEPT ![i] =
                  IF cachedConfig.set
                  THEN Racer("done", FALSE, FALSE, cachedConfig)
                  ELSE Racer("read", FALSE, FALSE, NullConfig)]
  /\ UNCHANGED <<storageEnv, cachedConfig, configFailed, clock, call, prev>>
  /\ UNCHANGED <<client, diag>>
  /\ UNCHANGED <<hasProcess, processEnv, buildEnv, prod, last, firstSecret>>
  /\ UNCHANGED browserVars

\* lines 95-104: the values are read from import.meta.env and checked
RacerRead(i) ==
  /\ racers[i].pc = "read"
  /\ racers' = [racers EXCEPT ![i] =
                  IF ensureConfigUncached.threw
                  THEN Racer("done", TRUE, TRUE, NullConfig)
                  ELSE Racer("write", TRUE, FALSE, ConfigFromEnv)]
  /\ configFailed' = (configFailed \/ ensureConfigUncached.threw)
  /\ UNCHANGED <<storageEnv, cachedConfig, clock, call, prev>>
  /\ UNCHANGED <<client, diag>>
  /\ UNCHANGED <<hasProcess, processEnv, buildEnv, prod, last, firstSecret>>
  /\ UNCHANGED browserVars

\* lines 106-115: cachedConfig is assigned and returned
RacerWrite(i) ==
  /\ racers[i].pc = "write"
  /\ cachedConfig' = CacheAssigned(racers[i].config)
  /\ racers' = [racers EXCEPT ![i] = Racer("done", TRUE, FALSE, cachedConfig')]
  /\ UNCHANGED <<storageEnv, configFailed, clock, call, prev>>
  /\ UNCHANGED <<client, diag>>
  /\ UNCHANGED <<hasProcess, processEnv, buildEnv, prod, last, firstSecret>>
  /\ UNCHANGED browserVars

\* the caller calls ensureConfig again
RacerAgain(i) ==
  /\ racers[i].pc = "done"
  /\ racers' = [racers EXCEPT ![i] = Racer("start", FALSE, FALSE, NullConfig)]
  /\ UNCHANGED <<storageEnv, cachedConfig, configFailed, clock, call, prev>>
  /\ UNCHANGED <<client, diag>>
  /\ UNCHANGED <<hasProcess, processEnv, buildEnv, prod, last, firstSecret>>
  /\ UNCHANGED browserVars

NextRace ==
  \/ \E i \in 1..NumRacers : RacerCheck(i)
  \/ \E i \in 1..NumRacers : RacerRead(i)
  \/ \E i \in 1..NumRacers : RacerWrite(i)
  \/ \E i \in 1..NumRacers : RacerAgain(i)

SpecRace == InitStorage /\ [][NextRace]_vars

(***************************************************************************)
(* Properties of the session codec and of the secret.                      *)
(***************************************************************************)
\* the steps of decodeSession in the order of the source
DecodeOrder == <<"decode", "sign", "length", "compare", "parse">>

Executed(step) == \E i \in 1..Len(last.steps) : last.steps[i] = step

\* the secret the environment of the current state configures, if any
Configured == readSecret(hasProcess, processEnv, buildEnv)

\* C1: round trip.  A getAdminSession call that carries the token
\* encodeSession made for the claim {isAdmin: true} under the secret in use
\* returns a claim equal to {isAdmin: true}, and does not throw.
RoundTrip ==
  (/\ last.op = "getAdminSession"
   /\ Truthy(last.secret)
   /\ last.cookie = Some(encodeSession(AdminSession, last.secret.s)))
  => (last.session = AdminSession /\ ~last.threw)

RoundTripWitness ==
  /\ last.op = "getAdminSession"
  /\ Truthy(last.secret)
  /\ last.cookie = Some(encodeSession(AdminSession, last.secret.s))
  /\ last.session = AdminSession

\* C2: tamper evidence.  When a token that decodeSession accepts under the
\* secret comes back with one bit of its signature segment flipped,
\* decodeSession returns null for it under the same secret.
TamperEvidence ==
  (/\ last.op = "getAdminSession"
   /\ last.tamper.on
   /\ decodeSession(last.tamper.base, last.secret).value # JNull)
  => last.session = JNull

\* the characters of base64url
IsBase64UrlChar(c) ==
  \/ c \in 65..90
  \/ c \in 97..122
  \/ c \in 48..57
  \/ c = CH_MINUS
  \/ c = CH_UNDERSCORE

IsBase64Url(raw) == \A i \in 1..Len(raw) : IsBase64UrlChar(raw[i])

\* the payload of a raw token: the decoded text before its last '.'
PayloadOf(raw) ==
  Slice(Utf8Decode(fromBase64Url(raw)), 0,
        LastIndexOf(Utf8Decode(fromBase64Url(raw)), CH_DOT))

HasSeparator(raw) == LastIndexOf(Utf8Decode(fromBase64Url(raw)), CH_DOT) # -1

Malformed(raw) ==
  \/ ~IsBase64Url(raw)
  \/ ~HasSeparator(raw)
  \/ JsonParse(PayloadOf(raw)).threw
  \/ ~IsAdminTrue(JsonParse(PayloadOf(raw)).val)

\* C3: fail closed on malformed input.  For a raw token that is not valid
\* base64url, has no '.' separator, has a payload that is no JSON, or has a
\* JSON payload without isAdmin === true, the result is null and nothing is
\* thrown.
MalformedYieldsNull ==
  (/\ last.op = "getAdminSession"
   /\ Truthy(last.cookie)
   /\ Malformed(last.cookie.s))
  => (last.session = JNull /\ ~last.threw)

\* C4: the result of decodeSession, and so of getAdminSession, is null or
\* exactly the claim {isAdmin: true}; no other field of the signed payload
\* comes back.
ClaimShape ==
  last.op = "getAdminSession" => last.session \in {JNull, AdminSession}

ClaimShapeWitness ==
  /\ last.op = "getAdminSession"
  /\ Truthy(last.secret)
  /\ last.cookie = Some(SignedToken(P_extraField, last.secret.s))
  /\ last.session = AdminSession

\* the signature segment of the raw token is the HMAC of its payload under
\* the secret
SignatureMatches(raw, secret) ==
  fromBase64Url(SignatureSegment(raw))
    = HmacSha256(Utf8Encode(secret), Utf8Encode(PayloadOf(raw)))

\* C5: ordering in decodeSession.  The steps taken are an initial part of
\* decode, sign, length check, compare, parse, so the HMAC is recomputed and
\* compared before the payload is parsed; a claim is returned only after the
\* parse; and when the signature comparison fails (other length or other
\* bytes) the payload is not parsed and null is returned.
VerifyBeforeParse ==
  last.op = "getAdminSession" =>
    /\ last.steps = SubSeq(DecodeOrder, 1, Len(last.steps))
    /\ last.session # JNull => Executed("parse")
    /\ (/\ Truthy(last.cookie)
        /\ Truthy(last.secret)
        /\ HasSeparator(last.cookie.s)
        /\ ~SignatureMatches(last.cookie.s, last.secret.s))
       => (~Executed("parse") /\ last.session = JNull)

VerifyBeforeParseWitness ==
  /\ last.op = "getAdminSession"
  /\ Truthy(last.cookie)
  /\ Truthy(last.secret)
  /\ HasSeparator(last.cookie.s)
  /\ ~SignatureMatches(last.cookie.s, last.secret.s)
  /\ IsAdminTrue(JsonParse(PayloadOf(last.cookie.s)).val)
  /\ last.steps = <<"decode", "sign", "length", "compare">>
  /\ last.session = JNull

\* C6: verifyAdminPassword does not throw, and returns true exactly when the
\* candidate is a string, a secret is configured and the candidate has the
\* bytes of the secret.
PasswordVerdict ==
  last.op = "verifyAdminPassword" =>
    /\ ~last.threw
    /\ last.ok <=> (/\ last.candidate.type = "string"
                    /\ Truthy(Configured)
                    /\ Utf8Encode(last.candidate.s) = Utf8Encode(Configured.s))

PasswordVerdictWitness ==
  /\ last.op = "verifyAdminPassword"
  /\ last.candidate.type = "string"
  /\ Truthy(Configured)
  /\ last.candidate.s = Configured.s
  /\ last.ok

\* C7: fail closed without a secret.  When no secret is configured,
\* setAdminSession returns null, with no token and no cookie string, and
\* getAdminSession returns null whatever the cookie holds.
NoSecretFailsClosed ==
  ~Truthy(Configured) =>
    /\ last.op = "setAdminSession" =>
         (last.setCookie = NoCookie /\ last.token = <<>> /\ ~last.threw)
    /\ last.op = "getAdminSession" => (last.session = JNull /\ ~last.threw)

NoSecretFailsClosedWitness ==
  /\ ~Truthy(Configured)
  /\ last.op = "getAdminSession"
  /\ \E s \in Secrets : last.cookie = Some(encodeSession(AdminSession, s))
  /\ last.session = JNull

\* C8: secret precedence.  With both values present the secret read is the
\* one of the process environment; the build-time value is the secret read
\* only when the process environment has no value.
SecretPrecedence ==
  last.read =>
    /\ (hasProcess /\ Truthy(processEnv) /\ Truthy(buildEnv))
         => last.secret = processEnv
    /\ (Truthy(last.secret) /\ last.secret = buildEnv /\ buildEnv # processEnv)
         => ~(hasProcess /\ processEnv.def)

SecretPrecedenceWitness ==
  /\ last.read
  /\ hasProcess
  /\ Truthy(processEnv)
  /\ Truthy(buildEnv)
  /\ processEnv # buildEnv
  /\ last.secret = processEnv

\* a source holding the empty string, taken as unset
EmptyAsUnset(v) == IF v.def /\ v.s = <<>> THEN Undefined ELSE v

\* C9: an empty string is absent.  The secret read is the one that would be
\* read with every source that holds the empty string unset.
EmptyIsAbsent ==
  last.read =>
    last.secret = readSecret(hasProcess, EmptyAsUnset(processEnv),
                             EmptyAsUnset(buildEnv))

\* C10 as claimed: once a call has resolved the secret, every later call
\* uses that same secret.
SecretResolvedOnce ==
  (last.read /\ firstSecret.def) => last.secret = firstSecret.v

\* the value of the environment at this moment
CurrentSecret ==
  IF hasProcess /\ processEnv.def
  THEN IF processEnv.s = <<>> THEN Undefined ELSE processEnv
  ELSE IF buildEnv.def /\ buildEnv.s # <<>> THEN buildEnv ELSE Undefined

\* C10: the secret is resolved on every call that needs it, from the value
\* the environment holds at the time of that call; nothing is cached.
SecretResolvedPerCall ==
  last.read => last.secret = CurrentSecret

SecretResolvedPerCallWitness ==
  /\ last.read
  /\ firstSecret.def
  /\ last.secret # firstSecret.v
  /\ last.secret = CurrentSecret

\* C11: login and logout over a cookie jar.  On a request of the browser,
\* when the last cookie applied came from a login and the secret is the one
\* that login used, getAdminSession returns {isAdmin: true}; when it came
\* from a logout, or no cookie was ever applied, getAdminSession returns
\* null.
SessionFollowsJar ==
  last.op = "getAdminSession" =>
    /\ (jar.by = "login" /\ Truthy(Configured) /\ Configured = jar.secret)
         => last.session = AdminSession
    /\ jar.by \in {"logout", "none"} => last.session = JNull

\* a request carrying the cookie a login stored
SessionFollowsJarWitness ==
  /\ last.op = "getAdminSession"
  /\ jar.by = "login"
  /\ Truthy(Configured)
  /\ Configured = jar.secret
  /\ jar.def /\ last.cookie = JarCookie
  /\ last.session = AdminSession

\* C12: constant-time comparison.  The comparison of verifyAdminPassword
\* visits every byte pair of two inputs of equal length, wherever they first
\* differ, and none when the lengths differ; the signature check of
\* decodeSession, once it compares, visits every byte of the digest.
ComparesEveryByte ==
  /\ (last.op = "verifyAdminPassword" /\ last.candidate.type = "string"
        /\ Truthy(Configured))
       => last.compared =
            (IF Len(Utf8Encode(last.candidate.s)) = Len(Utf8Encode(Configured.s))
             THEN Len(Utf8Encode(Configured.s)) ELSE 0)
  /\ last.op = "getAdminSession"
       => last.compared = (IF Executed("compare") THEN DIGEST_BYTES ELSE 0)

\* a candidate of the secret's length that differs from it in its first byte
ComparesEveryByteWitness ==
  /\ last.op = "verifyAdminPassword"
  /\ last.candidate.type = "string"
  /\ Truthy(Configured)
  /\ Len(last.candidate.s) = Len(Configured.s)
  /\ last.candidate.s[1] # Configured.s[1]
  /\ last.compared = Len(Configured.s)
  /\ ~last.ok

\* one of the five required values of import.meta.env is absent or empty
MissingRequired ==
  \E f \in {"accountId", "bucket", "endpoint", "accessKeyId", "secretAccessKey"} :
    ~storageEnv[f].def \/ storageEnv[f].s = <<>>

\* C13: storage configuration failure.  A storage call fails with the
\* configuration error when one of the five required values is absent or
\* empty, and once a call has failed so, every later call of the process
\* fails so too and nothing is cached.
ConfigFailurePermanent ==
  /\ (~StorageIdle /\ MissingRequired) => (call.threw /\ call.error = "config")
  /\ configFailed =>
       /\ ~cachedConfig.set
       /\ ~StorageIdle => (call.threw /\ call.error = "config")

\* a call that fails after an earlier call has failed
ConfigFailurePermanentWitness ==
  /\ ~StorageIdle
  /\ call.failedBefore
  /\ call.threw
  /\ call.error = "config"
  /\ storageEnv.endpoint = Some(<<>>)

\* cachedConfig is null or has its five required fields non-empty
CacheWellFormed ==
  cachedConfig.set =>
    /\ cachedConfig.accountId # <<>>
    /\ cachedConfig.bucket # <<>>
    /\ cachedConfig.endpoint # <<>>
    /\ cachedConfig.accessKeyId # <<>>
    /\ cachedConfig.secretAccessKey # <<>>

\* C14: the configuration cache.  In every step cachedConfig stays null or
\* well-formed, a cachedConfig that is set is never written again, and a
\* call that starts with cachedConfig set gets that configuration without
\* import.meta.env being read.
ConfigCachedForever ==
  [][/\ CacheWellFormed'
     /\ cachedConfig.set => cachedConfig' = cachedConfig
     /\ (cachedConfig.set /\ StorageIdle /\ ~StorageIdle')
          => (call'.config = cachedConfig /\ ~call'.readEnv
              /\ call'.error # "config")
     /\ (~cachedConfig.set /\ StorageIdle /\ ~StorageIdle' /\ call'.error # "config")
          => (cachedConfig' = call'.config /\ cachedConfig'.set)]_vars

\* a call served from the cache
ConfigCachedForeverWitness ==
  /\ ~StorageIdle
  /\ cachedConfig.set
  /\ ~call.readEnv
  /\ call.config = cachedConfig
  /\ ~call.threw


\* the key of the call with each of its '/'-separated segments percent-encoded
EncodedSegments ==
  IF ~Truthy(call.options.key) THEN <<>>
  ELSE Join([i \in 1..Len(Split(call.options.key.s, CH_SLASH)) |->
               encodeRfc3986(Split(call.options.key.s, CH_SLASH)[i]).s],
            <<CH_SLASH>>)

\* the canonical URI and the host the addressing style asks for
AddressedByStyle ==
  LET endpoint == ParseUrl(normaliseEndpoint(call.config.endpoint))
  IN IF call.config.forcePathStyle
     THEN /\ call.request.canonicalUri =
               <<CH_SLASH>> \o call.config.bucket
                 \o (IF EncodedSegments = <<>> THEN <<>>
                     ELSE <<CH_SLASH>> \o EncodedSegments)
          /\ call.request.host = UrlHost(endpoint)
     ELSE /\ call.request.canonicalUri = <<CH_SLASH>> \o EncodedSegments
          /\ call.request.host = call.config.bucket \o <<CH_DOT>> \o UrlHost(endpoint)

\* C15: canonical URI by addressing style.  A request that signedFetch sends
\* has the canonical URI /{bucket}/{key} and the endpoint's host with
\* path-style addressing, the canonical URI /{key} and the bucket prepended
\* to the endpoint's host otherwise, the key encoded segment by segment, and
\* the path it requests is the canonical URI it signed.
CanonicalUriByStyle ==
  (~StorageIdle /\ call.sent) =>
    /\ AddressedByStyle
    /\ call.request.pathname = call.request.canonicalUri

\* the part of C15 that holds: the canonical URI and the host by style
CanonicalUriByStyleOnly ==
  (~StorageIdle /\ call.sent) => AddressedByStyle


\* the pairs of the call's query, each name and value percent-encoded
EncodedPairs ==
  {[name |-> encodeRfc3986(call.options.query.entries[i].name).s,
    value |-> encodeRfc3986(call.options.query.entries[i].value).s] :
     i \in 1..Len(call.options.query.entries)}

\* the text is the pairs as name=value joined with '&', the names ascending
SortedPairs(text, pairs) ==
  LET parts == Split(text, 38)
      first(k) == CHOOSE i \in 1..Len(parts[k]) :
                    parts[k][i] = CH_EQ /\ \A j \in 1..(i - 1) : parts[k][j] # CH_EQ
      pair(k) == [name |-> SubSeq(parts[k], 1, first(k) - 1),
                  value |-> SubSeq(parts[k], first(k) + 1, Len(parts[k]))]
  IN IF pairs = {} THEN text = <<>>
     ELSE /\ Len(parts) = Cardinality(pairs)
          /\ \A k \in 1..Len(parts) : \E i \in 1..Len(parts[k]) : parts[k][i] = CH_EQ
          /\ {pair(k) : k \in 1..Len(parts)} = pairs
          /\ \A k \in 1..(Len(parts) - 1) : LessThan(pair(k).name, pair(k + 1).name)

\* C16: canonical query string.  The canonical query of a request is its
\* percent-encoded pairs as key=value joined with '&' in ascending order of
\* the encoded key, every insertion order of the same parameters gives the
\* same string, an absent or empty query gives the empty string, and
\* prefix=diag/, max-keys=1, list-type=2 give
\* list-type=2&max-keys=1&prefix=diag%2F.
CanonicalQuerySorted ==
  (~StorageIdle /\ call.sent) =>
    /\ SortedPairs(call.request.canonicalQuery, EncodedPairs)
    /\ \A p \in Permutations(1..Len(call.options.query.entries)) :
         buildCanonicalQuery(
           [call.options.query EXCEPT
              !.entries = [i \in 1..Len(call.options.query.entries) |->
                             call.options.query.entries[p[i]]]]).s
           = call.request.canonicalQuery
    /\ (~call.options.query.def \/ call.options.query.entries = <<>>)
         => call.request.canonicalQuery = <<>>
    /\ EncodedPairs = {[name |-> <<112, 114, 101, 102, 105, 120>>, value |-> <<100, 105, 97, 103, 37, 50, 70>>],
                       [name |-> <<109, 97, 120, 45, 107, 101, 121, 115>>, value |-> <<49>>],
                       [name |-> <<108, 105, 115, 116, 45, 116, 121, 112, 101>>, value |-> <<50>>]}
         => call.request.canonicalQuery = <<108, 105, 115, 116, 45, 116, 121, 112, 101, 61, 50, 38, 109, 97, 120, 45, 107, 101, 121, 115, 61, 49, 38, 112, 114, 101, 102, 105, 120, 61, 100, 105, 97, 103, 37, 50, 70>>

\* the query of the example, inserted with prefix first
CanonicalQuerySortedWitness ==
  /\ ~StorageIdle
  /\ call.sent
  /\ call.options.query.def
  /\ Len(call.options.query.entries) = 3
  /\ call.options.query.entries[1] = [name |-> <<112, 114, 101, 102, 105, 120>>, value |-> <<100, 105, 97, 103, 47>>]
  /\ call.options.query.entries[3] = [name |-> <<108, 105, 115, 116, 45, 116, 121, 112, 101>>, value |-> <<50>>]
  /\ call.request.canonicalQuery = <<108, 105, 115, 116, 45, 116, 121, 112, 101, 61, 50, 38, 109, 97, 120, 45, 107, 101, 121, 115, 61, 49, 38, 112, 114, 101, 102, 105, 120, 61, 100, 105, 97, 103, 37, 50, 70>>


\* the value the call signs for the header name, <<>> where it signs none
SignedValue(name) ==
  IF \E k \in 1..Len(call.request.canonicalHeaders) :
       call.request.canonicalHeaders[k].name = name
  THEN (CHOOSE h \in {call.request.canonicalHeaders[k] :
                        k \in 1..Len(call.request.canonicalHeaders)} :
          h.name = name).value
  ELSE <<>>

\* the three names signedFetch computes the values of
MandatoryNames == {<<104, 111, 115, 116>>, <<120, 45, 97, 109, 122, 45, 99, 111, 110, 116, 101, 110, 116, 45, 115, 104, 97, 50, 53, 54>>, <<120, 45, 97, 109, 122, 45, 100, 97, 116, 101>>}

\* C17: mandatory signed headers.  Whatever headers the caller supplies, the
\* canonical headers of a request carry the host of the request, the
\* SHA-256 of its body and the timestamp of the call under host,
\* x-amz-content-sha256 and x-amz-date, and the caller's value under every
\* other name the caller supplies.
MandatoryHeadersSystemComputed ==
  (~StorageIdle /\ call.sent) =>
    /\ SignedValue(<<104, 111, 115, 116>>) = call.request.host
    /\ SignedValue(<<120, 45, 97, 109, 122, 45, 99, 111, 110, 116, 101, 110, 116, 45, 115, 104, 97, 50, 53, 54>>) = call.request.payloadHash
    /\ SignedValue(<<120, 45, 97, 109, 122, 45, 100, 97, 116, 101>>) = formatAmzDate(Instants[call.now])
    /\ \A i \in 1..Len(call.options.headers.entries) :
         ToLowerCase(call.options.headers.entries[i].name) \notin MandatoryNames
           => SignedValue(ToLowerCase(call.options.headers.entries[i].name))
                = call.options.headers.entries[i].value

\* the part of C17 that holds: the requests whose caller supplies none of
\* the three names
MandatoryHeadersUnlessSupplied ==
  (/\ ~StorageIdle
   /\ call.sent
   /\ \A i \in 1..Len(call.options.headers.entries) :
        ToLowerCase(call.options.headers.entries[i].name) \notin MandatoryNames)
  => MandatoryHeadersSystemComputed


\* the call and the call before it are requests sent with the same options
SameRequestTwice ==
  /\ ~StorageIdle
  /\ call.sent
  /\ prev.op # "none"
  /\ prev.sent
  /\ prev.options = call.options

\* the two instants are in the same second, in the same day (UTC)
SameSecond(a, b) == [a EXCEPT !.ms = 0] = [b EXCEPT !.ms = 0]

SameDay(a, b) == a.y = b.y /\ a.mo = b.mo /\ a.d = b.d

\* C18 as stated: signing is deterministic given a fixed timestamp.  Two
\* requests with the same options at the same instant have the same
\* Authorization header, and at two different instants they differ in
\* x-amz-date, in dateStamp and in the signature.
SigningDeterministic ==
  SameRequestTwice =>
    /\ prev.now = call.now
         => prev.request.authorization = call.request.authorization
    /\ prev.now # call.now
         => /\ prev.request.amzDate # call.request.amzDate
            /\ prev.request.dateStamp # call.request.dateStamp
            /\ prev.request.signature # call.request.signature

\* C18 amended: two requests with the same options at instants of the same
\* second have the same x-amz-date and the same Authorization header; at
\* instants of different seconds they differ in x-amz-date and in the
\* signature; they differ in dateStamp exactly when the instants are of
\* different days.
SigningDeterministicPerSecond ==
  SameRequestTwice =>
    /\ SameSecond(Instants[prev.now], Instants[call.now])
         => /\ prev.request.amzDate = call.request.amzDate
            /\ prev.request.authorization = call.request.authorization
    /\ ~SameSecond(Instants[prev.now], Instants[call.now])
         => /\ prev.request.amzDate # call.request.amzDate
            /\ prev.request.signature # call.request.signature
            /\ prev.request.authorization # call.request.authorization
    /\ SameDay(Instants[prev.now], Instants[call.now])
         <=> prev.request.dateStamp = call.request.dateStamp

\* the same request at two instants of one second
SigningDeterministicPerSecondWitness ==
  /\ SameRequestTwice
  /\ prev.now # call.now
  /\ SameSecond(Instants[prev.now], Instants[call.now])
  /\ prev.request.authorization = call.request.authorization
  /\ call.request.amzDate = <<50, 48, 50, 52, 48, 49, 48, 53, 84, 48, 57, 48, 51, 48, 55, 90>>


\* C19: a signed request is built fresh per call.  A request that is sent
\* carries the timestamp of the instant of its own call, the hash of its
\* own body, and a signature and an Authorization header computed from its
\* own string to sign with the key of its own date; and where the call
\* before it was sent in another second, it shares neither the timestamp
\* nor the signature nor the Authorization header with that call.
FreshPerCall ==
  (~StorageIdle /\ call.sent) =>
    /\ call.now = clock
    /\ call.request.amzDate = formatAmzDate(Instants[clock])
    /\ call.request.payloadHash =
         hashSha256(IF Truthy(call.options.body)
                    THEN Utf8Encode(call.options.body.s) ELSE <<>>)
    /\ call.request.signature =
         Hex(HmacSha256(createSigningKey(call.config.secretAccessKey,
                                         Slice(call.request.amzDate, 0, 8)),
                        Utf8Encode(call.request.stringToSign)))
    /\ \E i \in 1..Len(call.request.authorization) :
         SubSeq(call.request.authorization, i, Len(call.request.authorization))
           = <<83, 105, 103, 110, 97, 116, 117, 114, 101, 61>> \o call.request.signature
    /\ (/\ prev.op # "none"
        /\ prev.sent
        /\ ~SameSecond(Instants[prev.now], Instants[call.now]))
         => /\ call.request.amzDate # prev.request.amzDate
            /\ call.request.signature # prev.request.signature
            /\ call.request.authorization # prev.request.authorization

\* the same request sent again a second later, with the cached configuration
FreshPerCallWitness ==
  /\ SameRequestTwice
  /\ ~call.readEnv
  /\ ~SameSecond(Instants[prev.now], Instants[call.now])
  /\ SameDay(Instants[prev.now], Instants[call.now])
  /\ call.request.amzDate = <<50, 48, 50, 52, 48, 49, 48, 53, 84, 48, 57, 48, 51, 48, 56, 90>>
  /\ call.request.authorization # prev.request.authorization


\* C20: configuration errors precede transport.  With a required value of
\* the configuration absent or empty, a call of listR2Diagnostics,
\* putR2Object, getR2ObjectBody or deleteR2Object fails with the
\* configuration error, and no request is built or handed to fetch.
ConfigErrorBeforeTransport ==
  (/\ ~StorageIdle
   /\ MissingRequired
   /\ call.op \in {"listR2Diagnostics", "putR2Object", "getR2ObjectBody",
                   "deleteR2Object"})
  => /\ call.threw
     /\ call.error = "config"
     /\ ~call.sent
     /\ call.request = NoRequest
     /\ call.response = NoResponse

\* putR2Object failing so with the endpoint empty
ConfigErrorBeforeTransportWitness ==
  /\ ~StorageIdle
  /\ call.op = "putR2Object"
  /\ storageEnv.endpoint = Some(<<>>)
  /\ call.options.key = Some(<<97, 46, 106, 115, 111, 110>>)
  /\ call.error = "config"
  /\ ~call.sent


\* the text holds the part somewhere
Contains(text, part) ==
  \E i \in 0..(Len(text) - Len(part)) : SubSeq(text, i + 1, i + Len(part)) = part

\* the call got a response with a status that is no success
NonSuccess ==
  /\ ~StorageIdle
  /\ call.sent
  /\ ~call.response.rejected
  /\ (call.response.status < 200 \/ call.response.status > 299)

\* C21: transport errors.  Whenever the remote call gives a status that is
\* no success, signedFetch throws an error that carries the HTTP status and
\* at most the first 200 characters of the response body, whether the body
\* is empty, is not empty or cannot be read.
TransportErrorCarriesStatus ==
  NonSuccess =>
    /\ call.threw
    /\ call.error = "status"
    /\ Contains(call.message, NumberToString(call.response.status))
    /\ Len(call.message) <= 200 + Len(NumberToString(call.response.status)) + 5

\* the part of C21 that holds: signedFetch throws, with the first 200
\* characters of the body as the message where the body can be read and is
\* not empty, and with 'HTTP ' and the status otherwise
TransportErrorMessage ==
  NonSuccess =>
    /\ call.threw
    /\ call.error = "status"
    /\ Len(call.message) <= 200
    /\ IF Truthy(call.response.text)
       THEN /\ call.message = [i \in 1..Len(call.message) |-> call.response.text.s[i]]
            /\ Len(call.message) = Len(call.response.text.s) \/ Len(call.message) = 200
       ELSE call.message = <<72, 84, 84, 80, 32>> \o NumberToString(call.response.status)


\* the call is one of the four exported operations
ExportedOperation ==
  /\ ~StorageIdle
  /\ call.op \in {"listR2Diagnostics", "putR2Object", "getR2ObjectBody",
                  "deleteR2Object"}

\* C22 as stated: no automatic retry.  A call of one of the four operations
\* sends exactly one request whenever the configuration resolves, and a
\* failed response or a network failure is followed by no further request
\* and reaches the caller as an error.
ExactlyOneRequest ==
  ExportedOperation =>
    /\ call.error # "config" => call.fetches = 1
    /\ (call.response.rejected \/ NonSuccess) => (call.threw /\ call.fetches = 1)

\* C22 amended: a call of one of the four operations sends exactly one
\* request, signed with the timestamp of the call, whenever the
\* configuration resolves and the request can be built, and none when the
\* endpoint is no URL or the key cannot be percent-encoded; a failed
\* response or a network failure is followed by no further request and
\* reaches the caller as an error.
ExactlyOneRequestOnceBuilt ==
  ExportedOperation =>
    /\ call.error \notin {"config", "url", "uri"}
         => /\ call.fetches = 1
            /\ call.request.amzDate = formatAmzDate(Instants[call.now])
    /\ call.error \in {"config", "url", "uri"} => (call.fetches = 0 /\ call.threw)
    /\ (call.response.rejected \/ NonSuccess)
         => /\ call.threw
            /\ call.fetches = 1
            /\ call.error \in {"network", "status"}

\* putR2Object answered with HTTP 403: one request, and the error thrown
ExactlyOneRequestOnceBuiltWitness ==
  /\ ExportedOperation
  /\ call.op = "putR2Object"
  /\ call.response.status = 403
  /\ call.fetches = 1
  /\ call.threw


\* the handler has answered the request
Answered == ~DiagIdle /\ ~diag.escaped

\* the put step is recorded as ok
PutSucceeded == Len(diag.steps) >= 2 /\ diag.steps[2].ok

\* C23: diagnostic cleanup.  Where get or del fails, the handler sends a
\* delete of the diagnostic object after the failing step, before it
\* answers; it sends that delete exactly when a step fails after put has
\* succeeded, never after a failure of list or put; and a cleanup that
\* fails leaves the status 500 and the failedStep of the failing step.
CleanupAfterPut ==
  Answered =>
    /\ diag.failedStep \in {"get", "del"}
         => /\ diag.cleanup # "none"
            /\ Len(diag.commands) = Len(diag.steps) + 1
            /\ diag.commands[Len(diag.commands)] = [command |-> "del", key |-> diag.key]
            /\ diag.commands[2] = [command |-> "put", key |-> diag.key]
    /\ diag.cleanup # "none" <=> (~diag.ok /\ PutSucceeded)
    /\ diag.failedStep \in {"list", "put"}
         => /\ diag.cleanup = "none"
            /\ \A i \in 1..Len(diag.commands) : diag.commands[i].command # "del"
    /\ diag.cleanup = "failed"
         => /\ diag.status = 500
            /\ diag.failedStep = diag.steps[Len(diag.steps)].name
            /\ ~diag.steps[Len(diag.steps)].ok

\* get fails on a body that is no JSON, and the cleanup delete fails too
CleanupAfterPutWitness ==
  /\ Answered
  /\ diag.failedStep = "get"
  /\ diag.error = Some(<<85, 110, 101, 120, 112, 101, 99, 116, 101, 100, 32, 116, 111, 107, 101, 110>>)
  /\ diag.cleanup = "failed"
  /\ diag.status = 500

\* C24: the handler always answers.  For every outcome of the configuration
\* and of the four steps the handler returns a response, 200 with ok where
\* all four steps succeeded, 500 without ok and with the name of the failed
\* step as failedStep otherwise; nothing leaves it as an exception.
HandlerAlwaysAnswers ==
  ~DiagIdle =>
    /\ ~diag.escaped
    /\ \/ /\ diag.status = 200
          /\ diag.ok
          /\ Len(diag.steps) = 4
          /\ \A k \in 1..4 : diag.steps[k].ok
       \/ /\ diag.status = 500
          /\ ~diag.ok
          /\ ~diag.steps[Len(diag.steps)].ok
          /\ diag.failedStep = diag.steps[Len(diag.steps)].name

\* the part of C24 that holds: the handler answers so whenever the
\* configuration is complete, and an exception leaves it exactly when a
\* required value is absent or empty
HandlerAnswersWhenConfigured ==
  ~DiagIdle =>
    /\ diag.escaped <=> MissingRequired
    /\ ~MissingRequired => HandlerAlwaysAnswers

\* C26: diagnostic step protocol.  The recorded steps are the first steps
\* of list, put, get, del in this order, every one but possibly the last is
\* ok, a step that failed is the last one recorded and the last command of
\* the four sent, a success has all four steps, and its totalMs is the sum
\* of their durations.
StepProtocol ==
  Answered =>
    /\ Len(diag.steps) \in 1..4
    /\ \A k \in 1..Len(diag.steps) :
         /\ diag.steps[k].name = <<"list", "put", "get", "del">>[k]
         /\ diag.commands[k].command = diag.steps[k].name
         /\ k < Len(diag.steps) => diag.steps[k].ok
    /\ \A k \in 1..Len(diag.commands) :
         k > Len(diag.steps) => (k = Len(diag.steps) + 1 /\ diag.cleanup # "none")
    /\ diag.ok <=> (Len(diag.steps) = 4 /\ diag.steps[4].ok)
    /\ diag.ok => diag.totalMs = diag.steps[1].ms + diag.steps[2].ms
                                   + diag.steps[3].ms + diag.steps[4].ms

\* a success whose four durations 0, 3, 1 and 1 add up to 5
StepProtocolWitness ==
  /\ Answered
  /\ diag.ok
  /\ diag.steps[2].ms = 3
  /\ diag.steps[3].ms = 1
  /\ diag.totalMs = 5

\* the handler stops at a put that fails
StepProtocolStopsWitness ==
  /\ Answered
  /\ Len(diag.steps) = 2
  /\ ~diag.steps[2].ok
  /\ Len(diag.commands) = 2


\* the configuration has its five required fields
Complete(config) ==
  /\ config.set
  /\ config.accountId # <<>>
  /\ config.bucket # <<>>
  /\ config.endpoint # <<>>
  /\ config.accessKeyId # <<>>
  /\ config.secretAccessKey # <<>>

\* the callers that have got a configuration from ensureConfig
Resolved == {i \in 1..NumRacers : racers[i].pc = "done" /\ ~racers[i].threw}

\* C25: racing first resolutions.  However the callers of ensureConfig
\* interleave, those that get a configuration get equal ones, complete and
\* as import.meta.env gives it; the cache is empty or holds that
\* configuration, and holds it once a caller has got one; and a caller
\* fails exactly when a required value is missing.
RacingResolutionsSafe ==
  /\ \A i \in Resolved :
       /\ Complete(racers[i].config)
       /\ racers[i].config = ConfigFromEnv
       /\ cachedConfig = racers[i].config
       /\ \A j \in Resolved : racers[j].config = racers[i].config
  /\ cachedConfig.set => (Complete(cachedConfig) /\ cachedConfig = ConfigFromEnv)
  /\ \A i \in 1..NumRacers :
       /\ racers[i].threw => MissingRequired
       /\ (racers[i].pc = "done" /\ MissingRequired) => racers[i].threw

\* two callers that have both read import.meta.env, the cache having been
\* empty for both, and have both got the configuration
RacingResolutionsSafeWitness ==
  /\ Resolved = 1..NumRacers
  /\ \A i \in 1..NumRacers : racers[i].readEnv
  /\ cachedConfig.set
  /\ cachedConfig.forcePathStyle


\* a request carries the cookie of a login made under another secret than
\* the one configured now
SecretChangedSinceLogin ==
  /\ last.op = "getAdminSession"
  /\ jar.by = "login"
  /\ jar.def
  /\ last.cookie = JarCookie
  /\ Configured # jar.secret

\* C27: secret binding of tokens.  A token that encodeSession made under
\* one secret is null to decodeSession under every other secret, so a
\* request that carries the cookie of a login made before the configured
\* secret changed gets no session.
SecretBinding ==
  /\ SecretChangedSinceLogin => (last.session = JNull /\ ~last.threw)
  /\ last.op = "getAdminSession"
       => \A s1 \in Secrets : \A s2 \in Secrets \ {s1} :
            decodeSession(encodeSession(AdminSession, s1), Some(s2)).value = JNull

\* the cookie of a login under one secret, checked under another one: the
\* signatures are compared and differ
SecretBindingWitness ==
  /\ SecretChangedSinceLogin
  /\ Truthy(Configured)
  /\ Truthy(jar.secret)
  /\ Executed("compare")
  /\ ~Executed("parse")
  /\ last.session = JNull

=============================================================================
